---- MODULE Spec2Model ----
(***************************************************************************)
(* Model of blackbox's recording core: the WAV container sink              *)
(* (internal/wav), the capture sources (internal/audio), and the GUI       *)
(* recording controller (internal/ui App.StartRecordingAdvanced /          *)
(* App.StopRecording with its consumer goroutine).                         *)
(*                                                                         *)
(* The specifications share the variables:                                 *)
(*   SpecSink    - one client driving a wav.Writer                         *)
(*   SpecSource  - one client driving a Recorder or a MicRecorder          *)
(*   SpecMix     - one call of mixS16Mono                                  *)
(*   Spec        - concurrent callers driving the App controller           *)
(*   SpecSession - one session of the controller with its data path       *)
(*   SpecCli     - the command-line recorder (cmd/gui main)                *)
(*   SpecLlama   - the callers of the local llama-server (internal/ui)     *)
(***************************************************************************)
EXTENDS Integers, Sequences, FiniteSets, TLC

\* ------------------------------------------------------------- bounds
MaxSessions == 2      \* recording sessions that may be started
MaxWrites == 2        \* Write calls made per sink in SpecSink
MaxCloses == 2        \* Close calls made per sink in SpecSink
MaxTime == 2          \* wall-clock seconds the clock may show
MaxStarts == 2        \* Start calls made per capture source in SpecSource
MaxStops == 2         \* Stop calls made per capture source in SpecSource
MaxFrames == 2        \* callbacks a device makes per capture source in SpecSource
CtlFrames == 2        \* callbacks a device makes per capture source in SpecSession
MaxBuf == 4           \* bytes in a buffer passed to mixS16Mono in SpecMix

\* ------------------------------------------------------ program constants
\* TLC's integers end at 2^31 - 1 and Writer.dataSize is a uint32, so every
\* byte count of the model (lengths, offsets, sizes, header fields) is kept
\* in units of Unit bytes; all of them are multiples of Unit in the program
\* as long as the PCM buffers are.
Unit == 4                      \* a header field: 4 bytes
BufSize == 1048576 \div Unit   \* bufio.NewWriterSize(f, 1<<20)
U32 == 1073741824              \* 2^32 bytes: Writer.dataSize, header fields
HeaderLen == 44 \div Unit
RiffExtra == 36 \div Unit
RiffAt == 4 \div Unit          \* Seek(4)
DataAt == 40 \div Unit         \* Seek(40)

Ids == 1..MaxSessions
Threads == {1, 2}
Paths == 1..MaxTime
NoPath == 0

Max(a, b) == IF a >= b THEN a ELSE b

VARIABLES
  fs,      \* the file system: path -> file
  wr,      \* the wav.Writer objects: id -> writer
  ret,     \* what the last client call returned (SpecSink, SpecSource)
  hist,    \* per writer: the calls its client has made so far (SpecSink)
  src,     \* the capture sources: id -> kind -> Recorder / MicRecorder
  crashed, \* the process has died of an unrecovered panic
  app,     \* the App's recording fields (its llama fields in SpecLlama)
  mu,      \* App.mu: 0, or the thread that holds it
  thr,     \* the threads that call StartRecordingAdvanced / StopRecording
  ses,     \* per recording attempt: context, ticker, channel, goroutine
  db,      \* the recordings table
  now,     \* the wall clock, in seconds
  mx       \* one call of mixS16Mono: its arguments and its result (SpecMix)

sinkVars == <<fs, wr, hist>>
srcVars == <<src>>
ctlVars == <<app, mu, thr, ses, db, now>>
vars == <<fs, wr, ret, hist, src, crashed, app, mu, thr, ses, db, now, mx>>

\* ------------------------------------------------------------ os.File
NoFile == [exists |-> FALSE, len |-> 0, riff |-> 0, data |-> 0]

\* os.Create: creates the file or truncates it to length zero.
OsCreate(f) == [exists |-> TRUE, len |-> 0, riff |-> 0, data |-> 0]

\* file.Write of k bytes of PCM data (or of the 44 header bytes) at offset off.
FileWrite(f, off, k) ==
  IF off = 0 /\ k >= HeaderLen
    THEN [f EXCEPT !.len = Max(@, off + k), !.riff = 0, !.data = 0]
    ELSE [f EXCEPT !.len = Max(@, off + k)]

\* binary.Write(w.file, LittleEndian, v) right after Seek(4) / Seek(40).
FilePatch(f, at, v) ==
  IF at = RiffAt THEN [f EXCEPT !.riff = v, !.len = Max(@, RiffAt + 1)]
                 ELSE [f EXCEPT !.data = v, !.len = Max(@, DataAt + 1)]

\* ------------------------------------------------------------ wav.Writer
NilWriter ==
  [st |-> "nil", path |-> NoPath, fopen |-> FALSE, off |-> 0, n |-> 0,
   err |-> FALSE, dataSize |-> 0, closed |-> FALSE,
   nSeek |-> 0, nPatch |-> 0, nFClose |-> 0]

\* bufio.Writer.Flush; ok is the operating system's answer to the one
\* file write it may issue.
BufioFlush(w, f, ok) ==
  IF w.err THEN [w |-> w, f |-> f, err |-> TRUE]
  ELSE IF w.n = 0 THEN [w |-> w, f |-> f, err |-> FALSE]
  ELSE IF ok /\ w.fopen
    THEN [w |-> [w EXCEPT !.n = 0, !.off = @ + w.n],
          f |-> FileWrite(f, w.off, w.n), err |-> FALSE]
    ELSE [w |-> [w EXCEPT !.err = TRUE], f |-> f, err |-> TRUE]

\* bufio.Writer.Write of L bytes: nn bytes taken so far, k file writes
\* issued so far, the fail-th file write fails (0: none does).
RECURSIVE BufioWrite(_, _, _, _, _, _)
BufioWrite(w, f, L, nn, k, fail) ==
  IF L > BufSize - w.n /\ ~w.err
    THEN IF w.n = 0
           THEN \* large write, empty buffer: write directly to the file
                IF fail # k + 1 /\ w.fopen
                  THEN BufioWrite([w EXCEPT !.off = @ + L],
                                  FileWrite(f, w.off, L), 0, nn + L, k + 1, fail)
                  ELSE BufioWrite([w EXCEPT !.err = TRUE], f, L, nn, k + 1, fail)
           ELSE \* fill the buffer, then flush it
                LET c == BufSize - w.n
                    r == BufioFlush([w EXCEPT !.n = BufSize], f, fail # k + 1)
                IN  BufioWrite(r.w, r.f, L - c, nn + c, k + 1, fail)
    ELSE IF w.err
           THEN [w |-> w, f |-> f, n |-> nn, err |-> "io"]
           ELSE [w |-> [w EXCEPT !.n = @ + L], f |-> f, n |-> nn + L, err |-> "nil"]

\* Writer.Write without its closed check
WriterWriteUnchecked(w, f, L, fail) ==
  LET r == BufioWrite(w, f, L, 0, 0, fail)
  IN  [w |-> [r.w EXCEPT !.dataSize = (@ + (r.n % U32)) % U32],
       f |-> r.f, n |-> r.n, err |-> r.err]

\* Writer.Write
WriterWrite(w, f, L, fail) ==
  IF w.closed
    THEN [w |-> w, f |-> f, n |-> 0, err |-> "closed"]
    ELSE LET r == BufioWrite(w, f, L, 0, 0, fail)
         IN  [w |-> [r.w EXCEPT !.dataSize = (@ + (r.n % U32)) % U32],
              f |-> r.f, n |-> r.n, err |-> r.err]

\* Writer.Flush
WriterFlush(w, f, ok) ==
  IF w.closed
    THEN [w |-> w, f |-> f, err |-> "nil"]
    ELSE LET r == BufioFlush(w, f, ok)
         IN  [w |-> r.w, f |-> r.f, err |-> IF r.err THEN "io" ELSE "nil"]

\* w.file.Close() on the error paths and at the end of Close.
FileClose(w) == [w EXCEPT !.fopen = FALSE, !.nFClose = @ + 1]

\* Writer.Close that patches and closes again on every call
WriterCloseAgain(w, f, fail) ==
  LET r  == BufioFlush([w EXCEPT !.closed = TRUE], f, fail # 1)
      w4 == [r.w EXCEPT !.nSeek = @ + 2, !.nPatch = @ + 2, !.off = DataAt + 1]
      f4 == FilePatch(FilePatch(r.f, RiffAt, (RiffExtra + w.dataSize) % U32),
                      DataAt, w.dataSize)
  IN  IF r.err \/ fail > 1
        THEN [w |-> FileClose(r.w), f |-> r.f, err |-> "io"]
        ELSE [w |-> FileClose(w4), f |-> f4, err |-> "nil"]

\* Writer.Close that marks the sink closed only when it has succeeded
WriterCloseRetries(w, f, fail) ==
  LET r == WriterCloseAgain([w EXCEPT !.fopen = TRUE], f, fail)
  IN  IF w.closed THEN [w |-> w, f |-> f, err |-> "nil"]
      ELSE IF r.err = "nil" THEN r
      ELSE [w |-> [r.w EXCEPT !.closed = FALSE, !.nSeek = @ + 1],
            f |-> r.f, err |-> r.err]

\* Writer.Close; fail names the file operation that fails: 1 the flush,
\* 2 Seek(4), 3 the RIFF size write, 4 Seek(40), 5 the data size write,
\* 6 the final file.Close; 0: none.
WriterClose(w, f, fail) ==
  IF w.closed
    THEN [w |-> w, f |-> f, err |-> "nil"]
    ELSE
      LET w0 == [w EXCEPT !.closed = TRUE]
          r  == BufioFlush(w0, f, fail # 1)
          w1 == [r.w EXCEPT !.nSeek = @ + 1]
          w2 == [w1 EXCEPT !.nPatch = @ + 1, !.off = RiffAt + 1]
          f2 == FilePatch(r.f, RiffAt, (RiffExtra + w.dataSize) % U32)
          w3 == [w2 EXCEPT !.nSeek = @ + 1]
          w4 == [w3 EXCEPT !.nPatch = @ + 1, !.off = DataAt + 1]
          f4 == FilePatch(f2, DataAt, w.dataSize)
      IN
      IF r.err THEN [w |-> FileClose(r.w), f |-> r.f, err |-> "io"]
      ELSE IF fail = 2 \/ ~w.fopen THEN [w |-> FileClose(w1), f |-> r.f, err |-> "io"]
      ELSE IF fail = 3 THEN [w |-> FileClose(w2), f |-> r.f, err |-> "io"]
      ELSE IF fail = 4 THEN [w |-> FileClose(w3), f |-> f2, err |-> "io"]
      ELSE IF fail = 5 THEN [w |-> FileClose(w4), f |-> f2, err |-> "io"]
      ELSE [w |-> FileClose(w4), f |-> f4,
            err |-> IF fail = 6 THEN "io" ELSE "nil"]

\* NewWriter that creates the file before it looks at the bit depth
NewWriterCreateFirst(f, path, bits, fail) ==
  IF fail = 1
    THEN [w |-> NilWriter, f |-> f, err |-> "io"]
  ELSE IF bits # 16
    THEN [w |-> NilWriter, f |-> OsCreate(f), err |-> "bits"]
  ELSE
    LET w0 == [NilWriter EXCEPT !.st = "open", !.path = path, !.fopen = TRUE,
                                !.n = HeaderLen]
        r  == BufioFlush(w0, OsCreate(f), fail # 2)
    IN  IF r.err
          THEN [w |-> NilWriter, f |-> r.f, err |-> "io"]
          ELSE [w |-> r.w, f |-> r.f, err |-> "nil"]

\* wav.NewWriter(path, 16000, 1, bits); fail: 1 os.Create fails, 2 the
\* header flush of writeHeader fails, 0: neither.
NewWriter(f, path, bits, fail) ==
  IF bits # 16
    THEN [w |-> NilWriter, f |-> f, err |-> "bits"]
  ELSE IF fail = 1
    THEN [w |-> NilWriter, f |-> f, err |-> "io"]
  ELSE
    LET w0 == [NilWriter EXCEPT !.st = "open", !.path = path, !.fopen = TRUE,
                                !.n = HeaderLen]
        r  == BufioFlush(w0, OsCreate(f), fail # 2)
    IN  IF r.err
          THEN [w |-> NilWriter, f |-> r.f, err |-> "io"]
          ELSE [w |-> r.w, f |-> r.f, err |-> "nil"]

\* ----------------------------------------------------------- mixS16Mono
Min(a, b) == IF a <= b THEN a ELSE b

\* int16(int16(lo) | int16(int16(hi)<<8))
S16(lo, hi) == LET u == lo + 256 * hi IN IF u >= 32768 THEN u - 65536 ELSE u

\* A division that rounds toward minus infinity.
HalfFloor(x) == x \div 2

\* Go's s /= 2 on an int32: the quotient is truncated toward zero.
Half(x) == IF x >= 0 THEN x \div 2 ELSE -((-x) \div 2)

Clamp16(x) == IF x > 32767 THEN 32767 ELSE IF x < -32768 THEN -32768 ELSE x

\* uint16(int16(s))
U16(x) == IF x < 0 THEN x + 65536 ELSE x

\* A mix that keeps the first buffer's samples.
mixS16MonoKeepsLoop(loop, mic) ==
  IF Len(mic) = 0 THEN [out |-> loop, panic |-> FALSE]
  ELSE
    LET n == Min(Len(loop), Len(mic))
    IN  IF n % 2 = 1 THEN [out |-> <<>>, panic |-> TRUE]
        ELSE [out |-> [j \in 1..n |-> loop[j]], panic |-> FALSE]

\* A mix without the len(mic) == 0 check.
mixS16MonoNoEmptyCheck(loop, mic) ==
  LET n == Min(Len(loop), Len(mic))
  IN  IF n % 2 = 1 THEN [out |-> <<>>, panic |-> TRUE]
      ELSE [out |-> [j \in 1..n |->
                       LET i == j - ((j - 1) % 2)
                           v == U16(Clamp16(Half(S16(loop[i], loop[i + 1])
                                                 + S16(mic[i], mic[i + 1]))))
                       IN  IF j = i THEN v % 256 ELSE v \div 256],
            panic |-> FALSE]

\* mixS16Mono(loop, mic); with an odd number n of bytes to mix, loop[i+1]
\* (or mic[i+1], out[i+1]) is out of range in the last round: a panic.
mixS16Mono(loop, mic) ==
  IF Len(mic) = 0 THEN [out |-> loop, panic |-> FALSE]
  ELSE
    LET n == Min(Len(loop), Len(mic))
    IN  IF n % 2 = 1 THEN [out |-> <<>>, panic |-> TRUE]
        ELSE [out |-> [j \in 1..n |->
                         LET i == j - ((j - 1) % 2)
                             v == U16(Clamp16(Half(S16(loop[i], loop[i + 1])
                                                   + S16(mic[i], mic[i + 1]))))
                         IN  IF j = i THEN v % 256 ELSE v \div 256],
              panic |-> FALSE]

\* ------------------------------------------- audio.Recorder, MicRecorder
Kinds == {"rec", "mic"}

\* A PCM frame is a sequence of bytes. The i-th callback of a device
\* delivers either an empty buffer or two samples that carry i.
DeviceFrame(kind, i) == <<i, 0, IF kind = "rec" THEN 1 ELSE 2, 0>>

\* ctx / dev are the struct's pointer fields, ctxLive / devSt the state of
\* the backend objects they point to; nCtxUninit, nDevStop, nDevUninit
\* count the backend calls made on them, nClose the close(r.dataCh)
\* statements executed; stopErr: a device.Stop() has returned an error.
NilSource ==
  [st |-> "nil", ctx |-> FALSE, ctxLive |-> FALSE, dev |-> FALSE,
   devSt |-> "none", once |-> FALSE, ch |-> <<>>, cap |-> 0,
   chClosed |-> FALSE, nCtxUninit |-> 0, nDevStop |-> 0, nDevUninit |-> 0,
   nClose |-> 0, stopErr |-> FALSE, delivered |-> 0]

\* audio.NewRecorder(bufferCallbacks) / audio.NewMicRecorder(bufferCallbacks)
NewSource(cap, ok) ==
  IF ok THEN [NilSource EXCEPT !.st = "new", !.ctx = TRUE, !.ctxLive = TRUE,
                               !.cap = cap]
        ELSE NilSource

\* A Start that releases what it holds on failure and returns nil.
SourceStartSwallowsError(r, fail) ==
  IF ~r.ctx THEN [r |-> r, err |-> "noctx"]
  ELSE IF fail = 1
    THEN [r |-> [r EXCEPT !.ctxLive = FALSE, !.nCtxUninit = @ + 1],
          err |-> "nil"]
  ELSE IF fail = 2
    THEN [r |-> [r EXCEPT !.dev = TRUE, !.devSt = "uninit",
                          !.nDevUninit = @ + 1,
                          !.ctxLive = FALSE, !.nCtxUninit = @ + 1],
          err |-> "nil"]
  ELSE [r |-> [r EXCEPT !.dev = TRUE, !.devSt = "started"], err |-> "nil"]

\* A Start that returns its error and releases nothing.
SourceStartNoCleanup(r, fail) ==
  IF ~r.ctx THEN [r |-> r, err |-> "noctx"]
  ELSE IF fail = 1 THEN [r |-> r, err |-> "init"]
  ELSE IF fail = 2
    THEN [r |-> [r EXCEPT !.dev = TRUE, !.devSt = "inited"], err |-> "start"]
  ELSE [r |-> [r EXCEPT !.dev = TRUE, !.devSt = "started"], err |-> "nil"]

\* Recorder.Start / MicRecorder.Start; fail: 1 malgo.InitDevice fails,
\* 2 device.Start fails, 0: neither.
SourceStart(r, fail) ==
  IF ~r.ctx THEN [r |-> r, err |-> "noctx"]
  ELSE IF fail = 1
    THEN [r |-> [r EXCEPT !.ctxLive = FALSE, !.nCtxUninit = @ + 1],
          err |-> "init"]
  ELSE IF fail = 2
    THEN [r |-> [r EXCEPT !.dev = TRUE, !.devSt = "uninit",
                          !.nDevUninit = @ + 1,
                          !.ctxLive = FALSE, !.nCtxUninit = @ + 1],
          err |-> "start"]
  ELSE [r |-> [r EXCEPT !.dev = TRUE, !.devSt = "started"], err |-> "nil"]

\* A Stop body that releases the context and keeps the pointer to it.
StopBodyKeepsContext(r, fail) ==
  LET r1 == IF r.dev
              THEN [r EXCEPT !.devSt = "uninit", !.dev = FALSE,
                             !.nDevStop = @ + 1, !.nDevUninit = @ + 1,
                             !.stopErr = @ \/ fail]
              ELSE r
      r2 == IF r1.ctx
              THEN [r1 EXCEPT !.ctxLive = FALSE, !.nCtxUninit = @ + 1]
              ELSE r1
  IN  [r |-> [r2 EXCEPT !.chClosed = TRUE, !.nClose = @ + 1],
       panic |-> r.chClosed]

\* The body both Stop methods share: stop and release the device, release
\* the context, close the data channel (closing a closed channel panics).
\* fail: device.Stop() returns an error, which "_ =" drops.
StopBody(r, fail) ==
  LET r1 == IF r.dev
              THEN [r EXCEPT !.devSt = "uninit", !.dev = FALSE,
                             !.nDevStop = @ + 1, !.nDevUninit = @ + 1,
                             !.stopErr = @ \/ fail]
              ELSE r
      r2 == IF r1.ctx
              THEN [r1 EXCEPT !.ctx = FALSE, !.ctxLive = FALSE,
                              !.nCtxUninit = @ + 1]
              ELSE r1
  IN  [r |-> [r2 EXCEPT !.chClosed = TRUE, !.nClose = @ + 1],
       panic |-> r.chClosed]

\* Recorder.Stop: the body runs under onceClose.
RecorderStop(r, fail) ==
  IF r.once THEN [r |-> r, panic |-> FALSE]
            ELSE StopBody([r EXCEPT !.once = TRUE], fail)

\* MicRecorder.Stop
MicRecorderStop(r, fail) == StopBody(r, fail)

SourceStop(kind, r, fail) ==
  IF kind = "rec" THEN RecorderStop(r, fail) ELSE MicRecorderStop(r, fail)

\* A Data callback that queues every frame.
DataCallbackNoDrop(r, b) ==
  IF r.chClosed THEN [r |-> [r EXCEPT !.delivered = @ + 1], panic |-> TRUE]
  ELSE [r |-> [r EXCEPT !.ch = Append(@, b), !.delivered = @ + 1],
        panic |-> FALSE]

\* A callback that puts the frame in front of the queued ones.
DataCallbackPrepends(r, b) ==
  IF r.chClosed THEN [r |-> [r EXCEPT !.delivered = @ + 1], panic |-> TRUE]
  ELSE IF Len(r.ch) < r.cap
    THEN [r |-> [r EXCEPT !.ch = <<b>> \o @, !.delivered = @ + 1],
          panic |-> FALSE]
    ELSE [r |-> [r EXCEPT !.delivered = @ + 1], panic |-> FALSE]

\* The Data callback of the device: copy the buffer, send without blocking
\* (a send on a closed channel panics), drop the frame if the channel is full.
DataCallback(r, b) ==
  IF r.chClosed THEN [r |-> [r EXCEPT !.delivered = @ + 1], panic |-> TRUE]
  ELSE IF Len(r.ch) < r.cap
    THEN [r |-> [r EXCEPT !.ch = Append(@, b), !.delivered = @ + 1],
          panic |-> FALSE]
    ELSE [r |-> [r EXCEPT !.delivered = @ + 1], panic |-> FALSE]

\* ------------------------------------------------- clients' bookkeeping
NoRet ==
  [op |-> "none", id |-> 0, path |-> NoPath, n |-> 0, err |-> "nil", left |-> {}]
NoHist ==
  [writes |-> 0, closes |-> 0, passed |-> 0, clean |-> TRUE,
   starts |-> [kind \in {"rec", "mic"} |-> 0],
   stops |-> [kind \in {"rec", "mic"} |-> 0]]

\* no call of mixS16Mono made
NoMix == [loop |-> <<>>, mic |-> <<>>, out |-> <<>>, panic |-> FALSE,
          done |-> FALSE]

\* ------------------------------------------------------------- ui.App
\* Handles are the id of the session that owns the object, 0 for nil.
IdleApp ==
  [recording |-> FALSE, dictation |-> FALSE, recordingID |-> 0, rec |-> 0,
   mic |-> 0, writer |-> 0, runErrCh |-> 0, ctx |-> 0, cancel |-> 0,
   flushTicker |-> 0, wavPath |-> NoPath]

\* the locals of a StopRecording call
NoLoc ==
  [rec |-> 0, mic |-> 0, writer |-> 0, flushTicker |-> 0, runErrCh |-> 0,
   cancel |-> 0, wavPath |-> NoPath]

IdleThread == [pc |-> "idle", loc |-> NoLoc, runErr |-> "nil"]

\* st: none (id unused), live (started), gone (finished and freed).
\* dictation and mixing are what the consumer's closure captured: the
\* dictation flag and mic != nil on the loopback path. gpc is
\* the consumer goroutine's position: top (the non-blocking ctx.Done
\* check), select (the blocking select), done (returned). written: the
\* buffers writer.Write has taken from the consumer, in order; events: the
\* "audioData" events the consumer has emitted, in order; late: how many of
\* the buffers were written after cancel() had been called; raced: a call
\* on the sink ran while the call the goroutine is in was in progress.
NoSession ==
  [st |-> "none", dictation |-> FALSE, mixing |-> FALSE, gpc |-> "none",
   ctxDone |-> FALSE, tickStopped |-> FALSE, tickPending |-> FALSE,
   errCh |-> <<>>, path |-> NoPath, stoppers |-> {},
   written |-> <<>>, events |-> <<>>, late |-> 0, raced |-> FALSE]

\* a row of the recordings table: FilePath, FileSize, and whether
\* UpdateRecording has run on it
NoRecording == [exists |-> FALSE, path |-> NoPath, size |-> 0, updated |-> FALSE]

InitCtl ==
  /\ app = IdleApp
  /\ mu = 0
  /\ thr = [t \in Threads |-> IdleThread]
  /\ ses = [k \in Ids |-> NoSession]
  /\ db = [rows |-> [k \in Ids |-> NoRecording]]
  /\ now = 1

InitObjects ==
  /\ wr = [k \in Ids |-> NilWriter]
  /\ src = [k \in Ids |-> [kind \in Kinds |-> NilSource]]
  /\ hist = [k \in Ids |-> NoHist]
  /\ ret = NoRet
  /\ crashed = FALSE

\* ------------------------------------------------------------ SpecSink
\* One client drives one sink object: it calls NewWriter until a sink is
\* returned, then writes PCM buffers of a few lengths, flushes and closes
\* in any order. The output directory may hold earlier recordings.
WriteLens == {0, 4 \div Unit, 536870912}   \* 0, 4 and 2^31 bytes
BitDepths == {8, 16, 24}
TheSink == CHOOSE k \in Ids : \A j \in Ids : k <= j

\* a finalized recording of 8 data bytes left by an earlier run
OldFile == [exists |-> TRUE, len |-> HeaderLen + 2, riff |-> RiffExtra + 2, data |-> 2]

InitSink ==
  /\ fs \in [Paths -> {NoFile, OldFile}]
  /\ InitObjects
  /\ InitCtl
  /\ mx = NoMix

SinkOpen(k, p, bits, fail) ==
  /\ wr[k].st = "nil"
  /\ LET r == NewWriter(fs[p], p, bits, fail)
     IN  /\ fs' = [fs EXCEPT ![p] = r.f]
         /\ wr' = [wr EXCEPT ![k] = r.w]
         /\ ret' = [NoRet EXCEPT !.op = "open", !.id = k, !.path = p, !.n = bits,
                           !.err = r.err]
  /\ UNCHANGED <<hist, src, crashed, ctlVars, mx>>

SinkWrite(k, L, fail) ==
  /\ wr[k].st = "open"
  /\ hist[k].writes < MaxWrites
  /\ LET r == WriterWrite(wr[k], fs[wr[k].path], L, fail)
     IN  /\ fs' = [fs EXCEPT ![wr[k].path] = r.f]
         /\ wr' = [wr EXCEPT ![k] = r.w]
         /\ ret' = [NoRet EXCEPT !.op = "write", !.id = k, !.path = wr[k].path,
                           !.n = r.n, !.err = r.err]
         /\ hist' = [hist EXCEPT ![k].writes = @ + 1,
                                 ![k].passed = @ + L,
                                 ![k].clean = @ /\ r.err = "nil"]
  /\ UNCHANGED <<src, crashed, ctlVars, mx>>

SinkFlush(k, ok) ==
  /\ wr[k].st = "open"
  /\ LET r == WriterFlush(wr[k], fs[wr[k].path], ok)
     IN  /\ fs' = [fs EXCEPT ![wr[k].path] = r.f]
         /\ wr' = [wr EXCEPT ![k] = r.w]
         /\ ret' = [NoRet EXCEPT !.op = "flush", !.id = k, !.path = wr[k].path,
                           !.err = r.err]
  /\ UNCHANGED <<hist, src, crashed, ctlVars, mx>>

SinkClose(k, fail) ==
  /\ wr[k].st = "open"
  /\ hist[k].closes < MaxCloses
  /\ LET r == WriterClose(wr[k], fs[wr[k].path], fail)
     IN  /\ fs' = [fs EXCEPT ![wr[k].path] = r.f]
         /\ wr' = [wr EXCEPT ![k] = r.w]
         /\ ret' = [NoRet EXCEPT !.op = "close", !.id = k, !.path = wr[k].path,
                           !.err = r.err]
  /\ hist' = [hist EXCEPT ![k].closes = @ + 1]
  /\ UNCHANGED <<src, crashed, ctlVars, mx>>

NextSink ==
  \/ \E p \in Paths, bits \in BitDepths, fail \in 0..2 :
        SinkOpen(TheSink, p, bits, fail)
  \/ \E L \in WriteLens, fail \in 0..2 : SinkWrite(TheSink, L, fail)
  \/ \E ok \in BOOLEAN : SinkFlush(TheSink, ok)
  \/ \E fail \in 0..6 : SinkClose(TheSink, fail)

SpecSink == InitSink /\ [][NextSink]_vars

\* ---------------------------------------------------------- SpecSource
\* One client drives one capture source, a Recorder or a MicRecorder: it
\* constructs it with a small channel capacity, calls Start and Stop in any
\* order and receives from Data(); the started device delivers frames.
TheSource == CHOOSE k \in Ids : \A j \in Ids : k <= j
Caps == {1, 2}

InitSource ==
  /\ fs = [p \in Paths |-> NoFile]
  /\ InitObjects
  /\ InitCtl
  /\ mx = NoMix

SrcNew(k, kind, cap, ok) ==
  /\ ~crashed
  /\ \A other \in Kinds : src[k][other].st = "nil"
  /\ src' = [src EXCEPT ![k][kind] = NewSource(cap, ok)]
  /\ ret' = [NoRet EXCEPT !.op = "new", !.id = k, !.n = cap,
                           !.err = IF ok THEN "nil" ELSE "ctx"]
  /\ UNCHANGED <<sinkVars, crashed, ctlVars, mx>>

SrcStart(k, kind, fail) ==
  /\ ~crashed
  /\ src[k][kind].st = "new"
  /\ hist[k].starts[kind] < MaxStarts
  /\ LET r == SourceStart(src[k][kind], fail)
     IN  /\ src' = [src EXCEPT ![k][kind] = r.r]
         /\ ret' = [NoRet EXCEPT !.op = "start", !.id = k, !.err = r.err]
  /\ hist' = [hist EXCEPT ![k].starts[kind] = @ + 1]
  /\ UNCHANGED <<fs, wr, crashed, ctlVars, mx>>

SrcStop(k, kind, fail) ==
  /\ ~crashed
  /\ src[k][kind].st = "new"
  /\ hist[k].stops[kind] < MaxStops
  /\ LET r == SourceStop(kind, src[k][kind], fail)
     IN  /\ src' = [src EXCEPT ![k][kind] = r.r]
         /\ crashed' = r.panic
  /\ ret' = [NoRet EXCEPT !.op = "stop", !.id = k]
  /\ hist' = [hist EXCEPT ![k].stops[kind] = @ + 1]
  /\ UNCHANGED <<fs, wr, ctlVars, mx>>

\* the device's callback thread
SrcCallback(k, kind, empty) ==
  /\ ~crashed
  /\ src[k][kind].devSt = "started"
  /\ src[k][kind].delivered < MaxFrames
  /\ LET b == IF empty THEN <<>>
                       ELSE DeviceFrame(kind, src[k][kind].delivered + 1)
         r == DataCallback(src[k][kind], b)
     IN  /\ src' = [src EXCEPT ![k][kind] = r.r]
         /\ crashed' = r.panic
  /\ UNCHANGED <<sinkVars, ret, ctlVars, mx>>

\* <-r.Data()
SrcRecv(k, kind) ==
  /\ ~crashed
  /\ Len(src[k][kind].ch) > 0
  /\ src' = [src EXCEPT ![k][kind].ch = Tail(@)]
  /\ ret' = [NoRet EXCEPT !.op = "recv", !.id = k,
                           !.n = Len(Head(src[k][kind].ch))]
  /\ UNCHANGED <<sinkVars, crashed, ctlVars, mx>>

NextSource ==
  \/ \E kind \in Kinds, cap \in Caps, ok \in BOOLEAN :
       SrcNew(TheSource, kind, cap, ok)
  \/ \E kind \in Kinds, fail \in 0..2 : SrcStart(TheSource, kind, fail)
  \/ \E kind \in Kinds, fail \in BOOLEAN : SrcStop(TheSource, kind, fail)
  \/ \E kind \in Kinds, empty \in BOOLEAN : SrcCallback(TheSource, kind, empty)
  \/ \E kind \in Kinds : SrcRecv(TheSource, kind)

SpecSource == InitSource /\ [][NextSource]_vars

\* ------------------------------------------------------------- SpecMix
\* One call of mixS16Mono on two buffers of up to MaxBuf bytes; the bytes
\* are those of the samples 0, -1, 32767, -32768 and of their mixtures.
SampleBytes == {0, 127, 128, 255}
Bufs == UNION {[1..n -> SampleBytes] : n \in 0..MaxBuf}

InitMix ==
  /\ fs = [p \in Paths |-> NoFile]
  /\ InitObjects
  /\ InitCtl
  /\ \E a \in Bufs, b \in Bufs :
       mx = [NoMix EXCEPT !.loop = a, !.mic = b]

MixCall ==
  /\ ~mx.done
  /\ LET r == mixS16Mono(mx.loop, mx.mic)
     IN  mx' = [mx EXCEPT !.out = r.out, !.panic = r.panic, !.done = TRUE]
  /\ UNCHANGED <<sinkVars, ret, src, crashed, ctlVars>>

NextMix == MixCall

SpecMix == InitMix /\ [][NextMix]_vars

\* ------------------------------------------------------------------ Spec
\* Caller threads (the GUI's bound methods run on their own goroutines)
\* call StartRecordingAdvanced and StopRecording at any time. ret holds
\* what the step just taken returned to its caller, NoRet if it returned
\* nothing.

\* A session whose consumer has returned and that neither the App nor a
\* running StopRecording refers to is unreachable; the runtime frees its
\* objects before the program takes its next step.
Collectable(k) ==
  /\ ses[k].st = "live"
  /\ ses[k].gpc = "done"
  /\ app.writer # k
  /\ \A t \in Threads : thr[t].loc.writer # k

Running == ~crashed /\ \A k \in Ids : ~Collectable(k)

Collect(k) ==
  /\ ~crashed
  /\ Collectable(k)
  /\ ses' = [ses EXCEPT ![k] = [NoSession EXCEPT !.st = "gone"]]
  /\ wr' = [wr EXCEPT ![k] = NilWriter]
  /\ src' = [src EXCEPT ![k] = [kind \in Kinds |-> NilSource]]
  /\ hist' = [hist EXCEPT ![k] = NoHist]
  /\ ret' = NoRet
  /\ UNCHANGED <<fs, crashed, app, mu, thr, db, now, mx>>

\* A Lock that never waits.
LockNoWait == TRUE

\* a.mu.Lock() can return: nobody holds the mutex.
Lock == mu = 0

FreeIds == {k \in Ids : ses[k].st = "none"}
NextId == CHOOSE k \in FreeIds : \A j \in FreeIds : k <= j

\* The failures the environment of Spec produces: os.MkdirAll, os.Create,
\* CreateRecording, InitContext, InitDevice, device.Start (for the first
\* source and for the microphone beside the loopback source); in the final
\* Close, Seek(4) or file.Close. The writer.Close() of a failed attempt,
\* whose result the code drops, succeeds.
StartFails ==
  {"none", "mkdir", "create", "db", "ctx", "init", "start",
   "micctx", "micinit", "micstart"}
StartCloseFails == {0}
StopCloseFails == {0, 2, 6}

\* StartRecordingAdvanced without the a.recording check.
StartEnterUnchecked(t) ==
  /\ thr[t].pc = "idle"
  /\ Running
  /\ Lock
  /\ FreeIds # {}
  /\ mu' = t
  /\ thr' = [thr EXCEPT ![t].pc = "start_body"]
  /\ ret' = NoRet
  /\ UNCHANGED <<sinkVars, src, crashed, app, ses, db, now, mx>>

\* StartRecordingAdvanced up to the a.recording check.
StartEnter(t) ==
  /\ thr[t].pc = "idle"
  /\ Running
  /\ Lock
  /\ IF app.recording
       THEN /\ ret' = [NoRet EXCEPT !.op = "start", !.id = t,
                                    !.err = "already recording"]
            /\ UNCHANGED <<mu, thr>>
       ELSE /\ FreeIds # {}
            /\ mu' = t
            /\ thr' = [thr EXCEPT ![t].pc = "start_body"]
            /\ ret' = NoRet
  /\ UNCHANGED <<sinkVars, src, crashed, app, ses, db, now, mx>>

\* What a failed attempt has not released, or has released twice, when
\* StartRecordingAdvanced returns.
Left(w, srcs) ==
  (IF w.st = "open" /\ w.fopen THEN {"file handle"} ELSE {})
  \cup (IF \E kind \in Kinds : srcs[kind].ctxLive THEN {"context"} ELSE {})
  \cup (IF \E kind \in Kinds : srcs[kind].devSt \in {"inited", "started"}
          THEN {"device"} ELSE {})
  \cup (IF \E kind \in Kinds : srcs[kind].nCtxUninit > 1
          THEN {"context twice"} ELSE {})
  \cup (IF \E kind \in Kinds : srcs[kind].nDevUninit > 1
          THEN {"device twice"} ELSE {})

\* A start that adds the second source whenever withMic is set.
StartOutcomeMicWhenAsked(path, withMic, dictation, fail, cf) ==
  LET nw    == NewWriter(fs[path], path, 16,
                         IF fail = "create" THEN 1
                         ELSE IF fail = "header" THEN 2 ELSE 0)
      cl    == WriterClose(nw.w, nw.f, cf)
      first == IF dictation THEN "mic" ELSE "rec"
      s0    == NewSource(8, fail # "ctx")
      s1    == SourceStart(s0, IF fail = "init" THEN 1
                               ELSE IF fail = "start" THEN 2 ELSE 0)
      m0    == NewSource(8, fail # "micctx")
      m1    == SourceStart(m0, IF fail = "micinit" THEN 1
                               ELSE IF fail = "micstart" THEN 2 ELSE 0)
      two   == withMic
      st    == RecorderStop(s1.r, FALSE)
      none  == [kind \in Kinds |-> NilSource]
  IN
  IF fail = "mkdir"
    THEN [err |-> "mkdir", w |-> NilWriter, f |-> fs[path], srcs |-> none,
          row |-> FALSE]
  ELSE IF nw.err # "nil"
    THEN [err |-> "open wav", w |-> nw.w, f |-> nw.f, srcs |-> none,
          row |-> FALSE]
  ELSE IF fail = "db"
    THEN [err |-> "create recording", w |-> cl.w, f |-> cl.f, srcs |-> none,
          row |-> FALSE]
  ELSE IF fail = "ctx"
    THEN [err |-> "init source", w |-> cl.w, f |-> cl.f, srcs |-> none,
          row |-> TRUE]
  ELSE IF s1.err # "nil"
    THEN [err |-> "start source", w |-> cl.w, f |-> cl.f,
          srcs |-> [none EXCEPT ![first] = s1.r], row |-> TRUE]
  ELSE IF two /\ fail = "micctx"
    THEN [err |-> "init mic", w |-> cl.w, f |-> cl.f,
          srcs |-> [none EXCEPT !["rec"] = st.r], row |-> TRUE]
  ELSE IF two /\ m1.err # "nil"
    THEN [err |-> "start mic", w |-> cl.w, f |-> cl.f,
          srcs |-> [none EXCEPT !["rec"] = st.r, !["mic"] = m1.r],
          row |-> TRUE]
  ELSE [err |-> "nil", w |-> nw.w, f |-> nw.f,
        srcs |-> IF two THEN [none EXCEPT !["rec"] = s1.r, !["mic"] = m1.r]
                        ELSE [none EXCEPT ![first] = s1.r],
        row |-> TRUE]

\* The objects StartRecordingAdvanced makes and what it returns; fail names
\* the sub-step that fails, cf the file operation that fails in the
\* writer.Close() of the cleanup, path the timestamp-derived path.
StartOutcome(path, withMic, dictation, fail, cf) ==
  LET nw    == NewWriter(fs[path], path, 16,
                         IF fail = "create" THEN 1
                         ELSE IF fail = "header" THEN 2 ELSE 0)
      cl    == WriterClose(nw.w, nw.f, cf)
      first == IF dictation THEN "mic" ELSE "rec"
      s0    == NewSource(8, fail # "ctx")
      s1    == SourceStart(s0, IF fail = "init" THEN 1
                               ELSE IF fail = "start" THEN 2 ELSE 0)
      m0    == NewSource(8, fail # "micctx")
      m1    == SourceStart(m0, IF fail = "micinit" THEN 1
                               ELSE IF fail = "micstart" THEN 2 ELSE 0)
      two   == ~dictation /\ withMic
      st    == RecorderStop(s1.r, FALSE)
      none  == [kind \in Kinds |-> NilSource]
  IN
  IF fail = "mkdir"
    THEN [err |-> "mkdir", w |-> NilWriter, f |-> fs[path], srcs |-> none,
          row |-> FALSE]
  ELSE IF nw.err # "nil"
    THEN [err |-> "open wav", w |-> nw.w, f |-> nw.f, srcs |-> none,
          row |-> FALSE]
  ELSE IF fail = "db"
    THEN [err |-> "create recording", w |-> cl.w, f |-> cl.f, srcs |-> none,
          row |-> FALSE]
  ELSE IF fail = "ctx"
    THEN [err |-> "init source", w |-> cl.w, f |-> cl.f, srcs |-> none,
          row |-> TRUE]
  ELSE IF s1.err # "nil"
    THEN [err |-> "start source", w |-> cl.w, f |-> cl.f,
          srcs |-> [none EXCEPT ![first] = s1.r], row |-> TRUE]
  ELSE IF two /\ fail = "micctx"
    THEN [err |-> "init mic", w |-> cl.w, f |-> cl.f,
          srcs |-> [none EXCEPT !["rec"] = st.r], row |-> TRUE]
  ELSE IF two /\ m1.err # "nil"
    THEN [err |-> "start mic", w |-> cl.w, f |-> cl.f,
          srcs |-> [none EXCEPT !["rec"] = st.r, !["mic"] = m1.r],
          row |-> TRUE]
  ELSE [err |-> "nil", w |-> nw.w, f |-> nw.f,
        srcs |-> IF two THEN [none EXCEPT !["rec"] = s1.r, !["mic"] = m1.r]
                        ELSE [none EXCEPT ![first] = s1.r],
        row |-> TRUE]

\* The rest of StartRecordingAdvanced, run with the mutex held: open the
\* sink at the path of the current second, create the recording row, start
\* the sources, spawn the consumer, record the handles, unlock (deferred)
\* and return. later: a second has passed since the clock was last read.
StartBody(t, withMic, dictation, fail, cf, later) ==
  /\ thr[t].pc = "start_body"
  /\ Running
  /\ fail \in {"micctx", "micinit", "micstart"} => (withMic /\ ~dictation)
  /\ cf = 0 \/ fail \in {"db", "ctx", "init", "start", "micctx", "micinit", "micstart"}
  /\ FreeIds # {}
  /\ LET path == IF later /\ now < MaxTime /\ fs[now].exists
                   THEN now + 1 ELSE now
         o    == StartOutcome(path, withMic, dictation, fail, cf)
     IN  /\ now' = path
         /\ fs' = [fs EXCEPT ![path] = o.f]
         /\ IF o.err = "nil"
              THEN LET k == NextId IN
                /\ wr' = [wr EXCEPT ![k] = o.w]
                /\ src' = [src EXCEPT ![k] = o.srcs]
                /\ db' = [db EXCEPT !.rows[k] =
                            [exists |-> TRUE, path |-> path, size |-> 0,
                             updated |-> FALSE]]
                /\ ses' = [ses EXCEPT ![k] =
                     [NoSession EXCEPT !.st = "live",
                                       !.dictation = dictation,
                                       !.mixing = ~dictation /\ withMic,
                                       !.gpc = "top", !.path = path]]
                /\ app' = [recording |-> TRUE, dictation |-> dictation,
                           recordingID |-> k,
                           rec |-> IF dictation THEN 0 ELSE k,
                           mic |-> IF dictation \/ withMic THEN k ELSE 0,
                           writer |-> k, runErrCh |-> k, ctx |-> k,
                           cancel |-> k, flushTicker |-> k, wavPath |-> path]
                /\ ret' = [NoRet EXCEPT !.op = "start", !.id = t, !.path = path]
              ELSE
                /\ ret' = [NoRet EXCEPT !.op = "start", !.id = t, !.err = o.err,
                                        !.left = Left(o.w, o.srcs)]
                /\ UNCHANGED <<wr, src, ses, app, db>>
  /\ thr' = [thr EXCEPT ![t] = IdleThread]
  /\ mu' = 0
  /\ UNCHANGED <<hist, crashed, mx>>

\* The handles a StopRecording call captures.
Captured ==
  [rec |-> app.rec, mic |-> app.mic, writer |-> app.writer,
   flushTicker |-> app.flushTicker, runErrCh |-> app.runErrCh,
   cancel |-> app.cancel, wavPath |-> app.wavPath]

\* StopRecording without the a.recording check: it captures whatever the
\* handles hold.
StopEnterUnchecked(t) ==
  /\ thr[t].pc = "idle"
  /\ Running
  /\ Lock
  /\ thr' = [thr EXCEPT ![t].pc = "stop_cancel", ![t].loc = Captured]
  /\ app' = [IdleApp EXCEPT !.recordingID = app.recordingID]
  /\ ses' = IF app.writer # 0
              THEN [ses EXCEPT ![app.writer].stoppers = @ \cup {t}]
              ELSE ses
  /\ ret' = NoRet
  /\ UNCHANGED <<sinkVars, src, crashed, mu, db, now, mx>>

\* StopRecording that captures the handles and leaves them set.
StopEnterKeepHandles(t) ==
  /\ thr[t].pc = "idle"
  /\ Running
  /\ Lock
  /\ IF ~app.recording
       THEN /\ ret' = [NoRet EXCEPT !.op = "stop", !.id = t,
                                    !.err = "not recording"]
            /\ UNCHANGED <<ses, thr>>
       ELSE /\ thr' = [thr EXCEPT ![t].pc = "stop_cancel", ![t].loc = Captured]
            /\ ses' = [ses EXCEPT ![app.writer].stoppers = @ \cup {t}]
            /\ ret' = NoRet
  /\ UNCHANGED <<sinkVars, src, crashed, app, mu, db, now, mx>>

\* StopRecording that leaves a.wavPath and a.flushTicker set.
StopEnterKeepsPath(t) ==
  /\ thr[t].pc = "idle"
  /\ Running
  /\ Lock
  /\ IF ~app.recording
       THEN /\ ret' = [NoRet EXCEPT !.op = "stop", !.id = t,
                                    !.err = "not recording"]
            /\ UNCHANGED <<app, ses, thr>>
       ELSE /\ thr' = [thr EXCEPT ![t].pc = "stop_cancel", ![t].loc = Captured]
            /\ app' = [IdleApp EXCEPT !.recordingID = app.recordingID,
                                      !.wavPath = app.wavPath,
                                      !.flushTicker = app.flushTicker]
            /\ ses' = [ses EXCEPT ![app.writer].stoppers = @ \cup {t}]
            /\ ret' = NoRet
  /\ UNCHANGED <<sinkVars, src, crashed, mu, db, now, mx>>

\* StopRecording up to the a.mu.Unlock(): reject, or capture the handles
\* and clear them (a.recordingID is left as it is).
StopEnter(t) ==
  /\ thr[t].pc = "idle"
  /\ Running
  /\ Lock
  /\ IF ~app.recording
       THEN /\ ret' = [NoRet EXCEPT !.op = "stop", !.id = t,
                                    !.err = "not recording"]
            /\ UNCHANGED <<app, ses, thr>>
       ELSE /\ thr' = [thr EXCEPT ![t].pc = "stop_cancel", ![t].loc = Captured]
            /\ app' = [IdleApp EXCEPT !.recordingID = app.recordingID]
            /\ ses' = [ses EXCEPT ![app.writer].stoppers = @ \cup {t}]
            /\ ret' = NoRet
  /\ UNCHANGED <<sinkVars, src, crashed, mu, db, now, mx>>

\* cancel()
StopCancel(t) ==
  /\ thr[t].pc = "stop_cancel"
  /\ Running
  /\ ses' = IF thr[t].loc.cancel # 0
              THEN [ses EXCEPT ![thr[t].loc.cancel].ctxDone = TRUE]
              ELSE ses
  /\ thr' = [thr EXCEPT ![t].pc = "stop_ticker"]
  /\ ret' = NoRet
  /\ UNCHANGED <<sinkVars, src, crashed, app, mu, db, now, mx>>

\* A StopRecording that goes from the ticker straight to the wait.
StopTickerSkipsSources(t) ==
  /\ thr[t].pc = "stop_ticker"
  /\ Running
  /\ ses' = IF thr[t].loc.flushTicker # 0
              THEN [ses EXCEPT ![thr[t].loc.flushTicker].tickStopped = TRUE]
              ELSE ses
  /\ thr' = [thr EXCEPT ![t].pc = "stop_wait"]
  /\ ret' = NoRet
  /\ UNCHANGED <<sinkVars, src, crashed, app, mu, db, now, mx>>

\* flushTicker.Stop()
StopTicker(t) ==
  /\ thr[t].pc = "stop_ticker"
  /\ Running
  /\ ses' = IF thr[t].loc.flushTicker # 0
              THEN [ses EXCEPT ![thr[t].loc.flushTicker].tickStopped = TRUE]
              ELSE ses
  /\ thr' = [thr EXCEPT ![t].pc = "stop_rec"]
  /\ ret' = NoRet
  /\ UNCHANGED <<sinkVars, src, crashed, app, mu, db, now, mx>>

\* rec.Stop() / mic.Stop(); fail: device.Stop() returns an error.
StopSource(t, kind, fail) ==
  /\ thr[t].pc = (IF kind = "rec" THEN "stop_rec" ELSE "stop_mic")
  /\ Running
  /\ LET k == IF kind = "rec" THEN thr[t].loc.rec ELSE thr[t].loc.mic
     IN  IF k # 0
           THEN LET r == SourceStop(kind, src[k][kind], fail)
                IN  /\ src' = [src EXCEPT ![k][kind] = r.r]
                    /\ crashed' = r.panic
                    /\ hist' = [hist EXCEPT ![k].stops[kind] = @ + 1]
           ELSE UNCHANGED <<src, crashed, hist>>
  /\ thr' = [thr EXCEPT ![t].pc = IF kind = "rec" THEN "stop_mic" ELSE "stop_wait"]
  /\ ret' = NoRet
  /\ UNCHANGED <<fs, wr, app, mu, ses, db, now, mx>>

\* A wait without the time.After case.
StopWaitForever(t, timeout) ==
  /\ thr[t].pc = "stop_wait"
  /\ Running
  /\ LET k == thr[t].loc.runErrCh
     IN  IF k # 0
           THEN /\ ~timeout
                /\ ses[k].errCh # <<>>
                /\ thr' = [thr EXCEPT ![t].pc = "stop_close",
                                      ![t].runErr = Head(ses[k].errCh)]
                /\ ses' = [ses EXCEPT ![k].errCh = Tail(@)]
           ELSE /\ timeout
                /\ thr' = [thr EXCEPT ![t].pc = "stop_close"]
                /\ UNCHANGED ses
  /\ ret' = NoRet
  /\ UNCHANGED <<sinkVars, src, crashed, app, mu, db, now, mx>>

\* select { case runErr = <-runErrCh: case <-time.After(2 * time.Second): }
\* timeout: two seconds pass and no report has arrived.
StopWait(t, timeout) ==
  /\ thr[t].pc = "stop_wait"
  /\ Running
  /\ LET k == thr[t].loc.runErrCh
     IN  IF k # 0 /\ ~timeout
           THEN /\ ses[k].errCh # <<>>
                /\ thr' = [thr EXCEPT ![t].pc = "stop_close",
                                      ![t].runErr = Head(ses[k].errCh)]
                /\ ses' = [ses EXCEPT ![k].errCh = Tail(@)]
           ELSE /\ k # 0 => ses[k].errCh = <<>>
                /\ thr' = [thr EXCEPT ![t].pc = "stop_close"]
                /\ UNCHANGED ses
  /\ ret' = NoRet
  /\ UNCHANGED <<sinkVars, src, crashed, app, mu, db, now, mx>>

\* A finalization that drops the result of writer.Close().
StopCloseIgnoresError(t, ok, cf) ==
  /\ thr[t].pc = "stop_close"
  /\ Running
  /\ LET k  == thr[t].loc.writer
         p  == wr[k].path
         fl == WriterFlush(wr[k], fs[p], ok)
         cl == WriterClose(fl.w, fl.f, cf)
     IN  /\ wr' = [wr EXCEPT ![k] = cl.w]
         /\ fs' = [fs EXCEPT ![p] = cl.f]
         /\ hist' = [hist EXCEPT ![k].closes = @ + 1]
         /\ thr' = [thr EXCEPT ![t].pc = "stop_persist"]
         /\ ret' = NoRet
  /\ UNCHANGED <<src, crashed, app, mu, ses, db, now, mx>>

\* A StopRecording that writes a last buffer of PCM data itself.
StopCloseWritesTail(t, ok, cf) ==
  /\ thr[t].pc = "stop_close"
  /\ Running
  /\ LET k  == thr[t].loc.writer
         p  == wr[k].path
         wt == WriterWrite(wr[k], fs[p], 1, 0)
         fl == WriterFlush(wt.w, wt.f, ok)
         cl == WriterClose(fl.w, fl.f, cf)
     IN  /\ wr' = [wr EXCEPT ![k] = cl.w]
         /\ fs' = [fs EXCEPT ![p] = cl.f]
         /\ hist' = [hist EXCEPT ![k].closes = @ + 1]
         /\ IF cl.err # "nil"
              THEN /\ thr' = [thr EXCEPT ![t] = IdleThread]
                   /\ ret' = [NoRet EXCEPT !.op = "stop", !.id = t,
                                           !.path = thr[t].loc.wavPath,
                                           !.err = "finalize wav"]
              ELSE /\ thr' = [thr EXCEPT ![t].pc = "stop_persist"]
                   /\ ret' = NoRet
  /\ UNCHANGED <<src, crashed, app, mu, ses, db, now, mx>>

\* _ = writer.Flush(); writer.Close()
StopClose(t, ok, cf) ==
  /\ thr[t].pc = "stop_close"
  /\ Running
  /\ LET k  == thr[t].loc.writer
         p  == wr[k].path
         fl == WriterFlush(wr[k], fs[p], ok)
         cl == WriterClose(fl.w, fl.f, cf)
     IN  /\ wr' = [wr EXCEPT ![k] = cl.w]
         /\ fs' = [fs EXCEPT ![p] = cl.f]
         /\ hist' = [hist EXCEPT ![k].closes = @ + 1]
         /\ IF cl.err # "nil"
              THEN /\ thr' = [thr EXCEPT ![t] = IdleThread]
                   /\ ret' = [NoRet EXCEPT !.op = "stop", !.id = t,
                                           !.path = thr[t].loc.wavPath,
                                           !.err = "finalize wav"]
              ELSE /\ thr' = [thr EXCEPT ![t].pc = "stop_persist"]
                   /\ ret' = NoRet
  /\ UNCHANGED <<src, crashed, app, mu, ses, db, now, mx>>

\* os.Stat, database.GetRecording(a.recordingID), database.UpdateRecording,
\* a.recordingID = 0, return; fail names the call that fails.
StopPersist(t, fail) ==
  /\ thr[t].pc = "stop_persist"
  /\ Running
  /\ LET p  == thr[t].loc.wavPath
         id == app.recordingID
         e  == IF fail = "stat" THEN "stat wav file"
               ELSE IF fail = "get" \/ id = 0 THEN "get recording"
               ELSE IF fail = "update" THEN "update recording"
               ELSE "nil"
     IN  IF e # "nil"
           THEN /\ ret' = [NoRet EXCEPT !.op = "stop", !.id = t, !.path = p,
                                        !.err = e]
                /\ UNCHANGED <<db, app>>
           ELSE /\ db' = [db EXCEPT !.rows[id].size = fs[p].len,
                                    !.rows[id].updated = TRUE]
                /\ app' = [app EXCEPT !.recordingID = 0]
                /\ ret' = [NoRet EXCEPT !.op = "stop", !.id = t, !.path = p,
                                        !.err = thr[t].runErr]
  /\ thr' = [thr EXCEPT ![t] = IdleThread]
  /\ UNCHANGED <<sinkVars, src, crashed, mu, ses, now, mx>>

\* ------------------------------------------------- the consumer goroutine
\* a.uiCtx: wails.Run calls OnStartup, which calls SetUIContext, before
\* the frontend can call a bound method of the App.
UiCtxSet == TRUE

\* a.emitAudioData(data, source): one EventsEmit call if a.uiCtx is set.
emitAudioData(events, data, source) ==
  IF UiCtxSet
    THEN Append(events, [source |-> source, data |-> data, length |-> Len(data)])
    ELSE events

\* the source tag the consumer passes to emitAudioData
Tag(k) == IF ses[k].dictation THEN "microphone" ELSE "loopback"

Primary(k) == IF ses[k].dictation THEN "mic" ELSE "rec"
Mixing(k) == ses[k].mixing

\* A cancellation check that reports and goes on to the select.
ConsumerTopReportsAndGoesOn(k) ==
  /\ ses[k].gpc = "top"
  /\ Running
  /\ ses' = IF ses[k].ctxDone
              THEN [ses EXCEPT ![k].gpc = "select", ![k].errCh = Append(@, "nil")]
              ELSE [ses EXCEPT ![k].gpc = "select"]
  /\ ret' = NoRet
  /\ UNCHANGED <<sinkVars, src, crashed, app, mu, thr, db, now, mx>>

\* A loop without the cancellation check at its top.
ConsumerTopSkipsCheck(k) ==
  /\ ses[k].gpc = "top"
  /\ Running
  /\ ses' = [ses EXCEPT ![k].gpc = "select"]
  /\ ret' = NoRet
  /\ UNCHANGED <<sinkVars, src, crashed, app, mu, thr, db, now, mx>>

\* select { case <-ctx.Done(): runErrCh <- nil; return; default: }
ConsumerTop(k) ==
  /\ ses[k].gpc = "top"
  /\ Running
  /\ ses' = IF ses[k].ctxDone
              THEN [ses EXCEPT ![k].gpc = "done", ![k].errCh = Append(@, "nil")]
              ELSE [ses EXCEPT ![k].gpc = "select"]
  /\ ret' = NoRet
  /\ UNCHANGED <<sinkVars, src, crashed, app, mu, thr, db, now, mx>>

\* case <-ctx.Done() of the blocking select
ConsumerCancelled(k) ==
  /\ ses[k].gpc = "select"
  /\ Running
  /\ ses[k].ctxDone
  /\ ses' = [ses EXCEPT ![k].gpc = "done", ![k].errCh = Append(@, "nil")]
  /\ ret' = NoRet
  /\ UNCHANGED <<sinkVars, src, crashed, app, mu, thr, db, now, mx>>

\* A consumer that drops the result of writer.Write and goes on.
ConsumerFrameIgnoresError(k, fail) ==
  /\ ses[k].gpc = "select"
  /\ Running
  /\ LET pr == src[k][IF ses[k].dictation THEN "mic" ELSE "rec"]
     IN
     IF pr.ch = <<>>
       THEN /\ pr.chClosed
            /\ ses' = [ses EXCEPT ![k].gpc = "done", ![k].errCh = Append(@, "nil")]
            /\ UNCHANGED <<fs, wr, src, crashed>>
       ELSE
         LET b     == Head(pr.ch)
             src1  == [src EXCEPT ![k][IF ses[k].dictation THEN "mic" ELSE "rec"].ch
                                     = Tail(@)]
             take  == ses[k].mixing /\ Len(b) > 0 /\ src[k]["mic"].ch # <<>>
             micBuf == IF take THEN Head(src[k]["mic"].ch) ELSE <<>>
             src2  == IF take THEN [src1 EXCEPT ![k]["mic"].ch = Tail(@)] ELSE src1
             m     == IF ses[k].mixing THEN mixS16Mono(b, micBuf)
                                       ELSE [out |-> b, panic |-> FALSE]
             w     == WriterWrite(wr[k], fs[wr[k].path], Len(m.out) \div Unit, fail)
         IN
         /\ src' = src2
         /\ IF Len(b) = 0
              THEN /\ ses' = [ses EXCEPT ![k].gpc = "top"]
                   /\ UNCHANGED <<fs, wr, crashed>>
            ELSE IF m.panic
              THEN /\ crashed' = TRUE
                   /\ UNCHANGED <<fs, wr, ses>>
            ELSE /\ wr' = [wr EXCEPT ![k] = w.w]
                 /\ fs' = [fs EXCEPT ![wr[k].path] = w.f]
                 /\ ses' = [ses EXCEPT ![k].gpc = "top",
                                        ![k].written = Append(@, m.out),
                                        ![k].events =
                                           emitAudioData(@, m.out,
                                             IF ses[k].dictation
                                               THEN "microphone" ELSE "loopback")]
                 /\ UNCHANGED crashed
  /\ ret' = NoRet
  /\ UNCHANGED <<hist, app, mu, thr, db, now, mx>>

\* A consumer that emits the event before it looks at the result of
\* writer.Write.
ConsumerFrameEmitsFirst(k, fail) ==
  /\ ses[k].gpc = "select"
  /\ Running
  /\ LET pr == src[k][Primary(k)]
     IN
     IF pr.ch = <<>>
       THEN /\ pr.chClosed
            /\ ses' = [ses EXCEPT ![k].gpc = "done", ![k].errCh = Append(@, "nil")]
            /\ UNCHANGED <<fs, wr, src, crashed>>
       ELSE
         LET b     == Head(pr.ch)
             src1  == [src EXCEPT ![k][Primary(k)].ch = Tail(@)]
             take  == Mixing(k) /\ Len(b) > 0 /\ src[k]["mic"].ch # <<>>
             micBuf == IF take THEN Head(src[k]["mic"].ch) ELSE <<>>
             src2  == IF take THEN [src1 EXCEPT ![k]["mic"].ch = Tail(@)] ELSE src1
             m     == IF Mixing(k) THEN mixS16Mono(b, micBuf)
                                   ELSE [out |-> b, panic |-> FALSE]
             w     == WriterWrite(wr[k], fs[wr[k].path], Len(m.out) \div Unit, fail)
         IN
         /\ src' = src2
         /\ IF Len(b) = 0
              THEN /\ ses' = [ses EXCEPT ![k].gpc = "top"]
                   /\ UNCHANGED <<fs, wr, crashed>>
            ELSE IF m.panic
              THEN /\ crashed' = TRUE
                   /\ UNCHANGED <<fs, wr, ses>>
            ELSE /\ wr' = [wr EXCEPT ![k] = w.w]
                 /\ fs' = [fs EXCEPT ![wr[k].path] = w.f]
                 /\ ses' = IF w.err # "nil"
                      THEN [ses EXCEPT ![k].gpc = "done",
                                       ![k].errCh = Append(@, w.err),
                                       ![k].events =
                                          emitAudioData(@, m.out, Tag(k))]
                      ELSE [ses EXCEPT ![k].gpc = "top",
                                       ![k].written = Append(@, m.out),
                                       ![k].events =
                                          emitAudioData(@, m.out, Tag(k))]
                 /\ UNCHANGED crashed
  /\ ret' = NoRet
  /\ UNCHANGED <<hist, app, mu, thr, db, now, mx>>

\* A consumer that receives from the microphone channel without a default
\* branch.
ConsumerFrameWaitsForMic(k, fail) ==
  /\ ses[k].gpc = "select"
  /\ Running
  /\ (/\ ses[k].mixing
      /\ src[k]["rec"].ch # <<>>
      /\ Head(src[k]["rec"].ch) # <<>>) => src[k]["mic"].ch # <<>>
  /\ LET pr == src[k][Primary(k)]
     IN
     IF pr.ch = <<>>
       THEN /\ pr.chClosed
            /\ ses' = [ses EXCEPT ![k].gpc = "done", ![k].errCh = Append(@, "nil")]
            /\ UNCHANGED <<fs, wr, src, crashed>>
       ELSE
         LET b     == Head(pr.ch)
             src1  == [src EXCEPT ![k][Primary(k)].ch = Tail(@)]
             take  == Mixing(k) /\ Len(b) > 0 /\ src[k]["mic"].ch # <<>>
             micBuf == IF take THEN Head(src[k]["mic"].ch) ELSE <<>>
             src2  == IF take THEN [src1 EXCEPT ![k]["mic"].ch = Tail(@)] ELSE src1
             m     == IF Mixing(k) THEN mixS16Mono(b, micBuf)
                                   ELSE [out |-> b, panic |-> FALSE]
             w     == WriterWrite(wr[k], fs[wr[k].path], Len(m.out) \div Unit, fail)
         IN
         /\ src' = src2
         /\ IF Len(b) = 0
              THEN /\ ses' = [ses EXCEPT ![k].gpc = "top"]
                   /\ UNCHANGED <<fs, wr, crashed>>
            ELSE IF m.panic
              THEN /\ crashed' = TRUE
                   /\ UNCHANGED <<fs, wr, ses>>
            ELSE /\ wr' = [wr EXCEPT ![k] = w.w]
                 /\ fs' = [fs EXCEPT ![wr[k].path] = w.f]
                 /\ ses' = IF w.err # "nil"
                      THEN [ses EXCEPT ![k].gpc = "done",
                                       ![k].errCh = Append(@, w.err)]
                      ELSE [ses EXCEPT ![k].gpc = "top",
                                       ![k].written = Append(@, m.out),
                                       ![k].events =
                                          emitAudioData(@, m.out, Tag(k))]
                 /\ UNCHANGED crashed
  /\ ret' = NoRet
  /\ UNCHANGED <<hist, app, mu, thr, db, now, mx>>

\* A consumer that takes a microphone frame with every primary frame, empty
\* or not.
ConsumerFrameDrainsMic(k, fail) ==
  /\ ses[k].gpc = "select"
  /\ Running
  /\ LET pr == src[k][Primary(k)]
     IN
     IF pr.ch = <<>>
       THEN /\ pr.chClosed
            /\ ses' = [ses EXCEPT ![k].gpc = "done", ![k].errCh = Append(@, "nil")]
            /\ UNCHANGED <<fs, wr, src, crashed>>
       ELSE
         LET b     == Head(pr.ch)
             src1  == [src EXCEPT ![k][Primary(k)].ch = Tail(@)]
             take  == Mixing(k) /\ src[k]["mic"].ch # <<>>
             micBuf == IF take THEN Head(src[k]["mic"].ch) ELSE <<>>
             src2  == IF take THEN [src1 EXCEPT ![k]["mic"].ch = Tail(@)] ELSE src1
             m     == IF Mixing(k) THEN mixS16Mono(b, micBuf)
                                   ELSE [out |-> b, panic |-> FALSE]
             w     == WriterWrite(wr[k], fs[wr[k].path], Len(m.out) \div Unit, fail)
         IN
         /\ src' = src2
         /\ IF Len(b) = 0
              THEN /\ ses' = [ses EXCEPT ![k].gpc = "top"]
                   /\ UNCHANGED <<fs, wr, crashed>>
            ELSE IF m.panic
              THEN /\ crashed' = TRUE
                   /\ UNCHANGED <<fs, wr, ses>>
            ELSE /\ wr' = [wr EXCEPT ![k] = w.w]
                 /\ fs' = [fs EXCEPT ![wr[k].path] = w.f]
                 /\ ses' = IF w.err # "nil"
                      THEN [ses EXCEPT ![k].gpc = "done",
                                       ![k].errCh = Append(@, w.err)]
                      ELSE [ses EXCEPT ![k].gpc = "top",
                                       ![k].written = Append(@, m.out),
                                       ![k].events =
                                          emitAudioData(@, m.out, Tag(k)),
                                       ![k].late =
                                          IF ses[k].ctxDone THEN @ + 1 ELSE @]
                 /\ UNCHANGED crashed
  /\ ret' = NoRet
  /\ UNCHANGED <<hist, app, mu, thr, db, now, mx>>

\* A consumer that clears the App's session fields when its write fails.
ConsumerFrameEndsSession(k, fail) ==
  /\ ses[k].gpc = "select"
  /\ Running
  /\ LET pr == src[k][Primary(k)]
     IN
     IF pr.ch = <<>>
       THEN /\ pr.chClosed
            /\ ses' = [ses EXCEPT ![k].gpc = "done", ![k].errCh = Append(@, "nil")]
            /\ UNCHANGED <<fs, wr, src, crashed>>
       ELSE
         LET b     == Head(pr.ch)
             src1  == [src EXCEPT ![k][Primary(k)].ch = Tail(@)]
             take  == Mixing(k) /\ Len(b) > 0 /\ src[k]["mic"].ch # <<>>
             micBuf == IF take THEN Head(src[k]["mic"].ch) ELSE <<>>
             src2  == IF take THEN [src1 EXCEPT ![k]["mic"].ch = Tail(@)] ELSE src1
             m     == IF Mixing(k) THEN mixS16Mono(b, micBuf)
                                   ELSE [out |-> b, panic |-> FALSE]
             w     == WriterWrite(wr[k], fs[wr[k].path], Len(m.out) \div Unit, fail)
         IN
         /\ src' = src2
         /\ IF Len(b) = 0
              THEN /\ ses' = [ses EXCEPT ![k].gpc = "top"]
                   /\ UNCHANGED <<fs, wr, crashed>>
            ELSE IF m.panic
              THEN /\ crashed' = TRUE
                   /\ UNCHANGED <<fs, wr, ses>>
            ELSE /\ wr' = [wr EXCEPT ![k] = w.w]
                 /\ fs' = [fs EXCEPT ![wr[k].path] = w.f]
                 /\ ses' = IF w.err # "nil"
                      THEN [ses EXCEPT ![k].gpc = "done",
                                       ![k].errCh = Append(@, w.err)]
                      ELSE [ses EXCEPT ![k].gpc = "top",
                                       ![k].written = Append(@, m.out),
                                       ![k].events =
                                          emitAudioData(@, m.out, Tag(k)),
                                       ![k].late =
                                          IF ses[k].ctxDone THEN @ + 1 ELSE @]
                 /\ UNCHANGED crashed
  /\ app' = IF src[k][Primary(k)].ch # <<>> /\ wr'[k].err /\ ~crashed'
              THEN [IdleApp EXCEPT !.recordingID = app.recordingID]
              ELSE app
  /\ ret' = NoRet
  /\ UNCHANGED <<hist, mu, thr, db, now, mx>>

\* case b, ok := <-mic.Data() / <-rec.Data(): a closed channel ends the
\* goroutine; a non-empty frame is mixed with the microphone frame that is
\* ready, if any, and written.
ConsumerFrame(k, fail) ==
  /\ ses[k].gpc = "select"
  /\ Running
  /\ LET pr == src[k][Primary(k)]
     IN
     IF pr.ch = <<>>
       THEN /\ pr.chClosed
            /\ ses' = [ses EXCEPT ![k].gpc = "done", ![k].errCh = Append(@, "nil")]
            /\ UNCHANGED <<fs, wr, src, crashed>>
       ELSE
         LET b     == Head(pr.ch)
             src1  == [src EXCEPT ![k][Primary(k)].ch = Tail(@)]
             take  == Mixing(k) /\ Len(b) > 0 /\ src[k]["mic"].ch # <<>>
             micBuf == IF take THEN Head(src[k]["mic"].ch) ELSE <<>>
             src2  == IF take THEN [src1 EXCEPT ![k]["mic"].ch = Tail(@)] ELSE src1
             m     == IF Mixing(k) THEN mixS16Mono(b, micBuf)
                                   ELSE [out |-> b, panic |-> FALSE]
             w     == WriterWrite(wr[k], fs[wr[k].path], Len(m.out) \div Unit, fail)
         IN
         /\ src' = src2
         /\ IF Len(b) = 0
              THEN /\ ses' = [ses EXCEPT ![k].gpc = "top"]
                   /\ UNCHANGED <<fs, wr, crashed>>
            ELSE IF m.panic
              THEN /\ crashed' = TRUE
                   /\ UNCHANGED <<fs, wr, ses>>
            ELSE /\ wr' = [wr EXCEPT ![k] = w.w]
                 /\ fs' = [fs EXCEPT ![wr[k].path] = w.f]
                 /\ ses' = IF w.err # "nil"
                      THEN [ses EXCEPT ![k].gpc = "done",
                                       ![k].errCh = Append(@, w.err)]
                      ELSE [ses EXCEPT ![k].gpc = "top",
                                       ![k].written = Append(@, m.out),
                                       ![k].events =
                                          emitAudioData(@, m.out, Tag(k)),
                                       ![k].late =
                                          IF ses[k].ctxDone THEN @ + 1 ELSE @]
                 /\ UNCHANGED crashed
  /\ ret' = NoRet
  /\ UNCHANGED <<hist, app, mu, thr, db, now, mx>>

\* case <-flushTicker.C: _ = writer.Flush()
ConsumerFlush(k, ok) ==
  /\ ses[k].gpc = "select"
  /\ Running
  /\ ses[k].tickPending
  /\ LET r == WriterFlush(wr[k], fs[wr[k].path], ok)
     IN  /\ wr' = [wr EXCEPT ![k] = r.w]
         /\ fs' = [fs EXCEPT ![wr[k].path] = r.f]
  /\ ses' = [ses EXCEPT ![k].gpc = "top", ![k].tickPending = FALSE]
  /\ ret' = NoRet
  /\ UNCHANGED <<hist, src, crashed, app, mu, thr, db, now, mx>>

\* ------------------------------------------------------- the environment
\* a started device calls its Data callback
DeviceCallback(k, kind, empty) ==
  /\ ses[k].st = "live"
  /\ Running
  /\ src[k][kind].devSt = "started"
  /\ src[k][kind].delivered < CtlFrames
  /\ LET b == IF empty THEN <<>>
                       ELSE DeviceFrame(kind, src[k][kind].delivered + 1)
         r == DataCallback(src[k][kind], b)
     IN  /\ src' = [src EXCEPT ![k][kind] = r.r]
         /\ crashed' = r.panic
  /\ ret' = NoRet
  /\ UNCHANGED <<sinkVars, ctlVars, mx>>

\* the runtime sends a tick on flushTicker.C (capacity 1)
TickerFire(k) ==
  /\ ses[k].st = "live"
  /\ Running
  /\ ~ses[k].tickStopped
  /\ ~ses[k].tickPending
  /\ ses' = [ses EXCEPT ![k].tickPending = TRUE]
  /\ ret' = NoRet
  /\ UNCHANGED <<sinkVars, src, crashed, app, mu, thr, db, now, mx>>

Init ==
  /\ fs = [p \in Paths |-> NoFile]
  /\ InitObjects
  /\ InitCtl
  /\ mx = NoMix

PersistFails == {"none", "stat", "get", "update"}

\* The steps of the callers and of the consumer's cancellation path.
Next ==
  \/ \E t \in Threads : StartEnter(t)
  \/ \E t \in Threads, withMic \in BOOLEAN, dictation \in BOOLEAN,
          fail \in StartFails, cf \in StartCloseFails, later \in BOOLEAN :
       StartBody(t, withMic, dictation, fail, cf, later)
  \/ \E t \in Threads : StopEnter(t)
  \/ \E t \in Threads : StopCancel(t)
  \/ \E t \in Threads : StopTicker(t)
  \/ \E t \in Threads, kind \in Kinds : StopSource(t, kind, FALSE)
  \/ \E t \in Threads, timeout \in BOOLEAN : StopWait(t, timeout)
  \/ \E t \in Threads, ok \in BOOLEAN, cf \in StopCloseFails : StopClose(t, ok, cf)
  \/ \E t \in Threads, fail \in PersistFails : StopPersist(t, fail)
  \/ \E k \in Ids : ConsumerTop(k)
  \/ \E k \in Ids : ConsumerCancelled(k)
  \/ \E k \in Ids : Collect(k)

\* Spec: up to MaxSessions sessions, started and stopped by concurrent
\* callers, each shorter than the flush interval and recorded while the
\* devices are silent (no callback is delivered).
Spec == Init /\ [][Next]_vars

\* SpecSession: one session with its data path. The devices deliver frames
\* and the flush ticker ticks; no Start is issued once a session has been
\* stopped, and all attempts fall into the same second.
FirstSession == app.recording \/ \A k \in Ids : ses[k].st = "none"

NextSession ==
  \/ \E t \in Threads : FirstSession /\ StartEnter(t)
  \/ \E t \in Threads, withMic \in BOOLEAN, dictation \in BOOLEAN,
          fail \in StartFails, cf \in StartCloseFails :
       StartBody(t, withMic, dictation, fail, cf, FALSE)
  \/ \E t \in Threads : StopEnter(t)
  \/ \E t \in Threads : StopCancel(t)
  \/ \E t \in Threads : StopTicker(t)
  \/ \E t \in Threads, kind \in Kinds, fail \in BOOLEAN :
       StopSource(t, kind, fail)
  \/ \E t \in Threads, timeout \in BOOLEAN : StopWait(t, timeout)
  \/ \E t \in Threads, ok \in BOOLEAN, cf \in StopCloseFails : StopClose(t, ok, cf)
  \/ \E t \in Threads, fail \in PersistFails : StopPersist(t, fail)
  \/ \E k \in Ids : ConsumerTop(k)
  \/ \E k \in Ids : ConsumerCancelled(k)
  \/ \E k \in Ids, fail \in 0..1 : ConsumerFrame(k, fail)
  \/ \E k \in Ids, ok \in BOOLEAN : ConsumerFlush(k, ok)
  \/ \E k \in Ids, kind \in Kinds, empty \in BOOLEAN :
       DeviceCallback(k, kind, empty)
  \/ \E k \in Ids : TickerFire(k)
  \/ \E k \in Ids : Collect(k)

SpecSession == Init /\ [][NextSession]_vars

\* ---------------------------------------------------------------- SpecCli
\* The command-line recorder: main has opened the sink, started the
\* loopback source (and the microphone with -with-mic), armed the stop
\* conditions and spawned the writer goroutine, and waits. The devices
\* deliver frames, the ticker ticks, and a stop condition calls cancel().
TheCli == CHOOSE k \in Ids : \A j \in Ids : k <= j
Main == CHOOSE t \in Threads : \A u \in Threads : t <= u

InitCli ==
  /\ fs = [p \in Paths |-> IF p = 1 THEN NewWriter(NoFile, 1, 16, 0).f ELSE NoFile]
  /\ wr = [k \in Ids |-> IF k = TheCli THEN NewWriter(NoFile, 1, 16, 0).w
                                       ELSE NilWriter]
  /\ \E withMic \in BOOLEAN :
       /\ src = [k \in Ids |-> [kind \in Kinds |->
                   IF k = TheCli /\ (kind = "rec" \/ withMic)
                     THEN SourceStart(NewSource(8, TRUE), 0).r
                     ELSE NilSource]]
       /\ ses = [k \in Ids |->
                   IF k = TheCli
                     THEN [NoSession EXCEPT !.st = "live", !.mixing = withMic,
                                            !.gpc = "select", !.path = 1]
                     ELSE NoSession]
       /\ thr = [t \in Threads |->
                   IF t = Main
                     THEN [pc |-> "cli_wait", runErr |-> "nil",
                           loc |-> [rec |-> TheCli,
                                    mic |-> IF withMic THEN TheCli ELSE 0,
                                    writer |-> TheCli, flushTicker |-> TheCli,
                                    runErrCh |-> TheCli, cancel |-> TheCli,
                                    wavPath |-> 1]]
                     ELSE IdleThread]
  /\ hist = [k \in Ids |-> NoHist]
  /\ ret = NoRet
  /\ crashed = FALSE
  /\ app = IdleApp
  /\ mu = 0
  /\ db = [rows |-> [k \in Ids |-> NoRecording]]
  /\ now = 1
  /\ mx = NoMix

\* What a call on the sink can do when it ran together with another one,
\* wav.Writer having no lock: take effect before or after the other call,
\* take effect in part, or panic.
RaceOutcomes == {"seq", "torn", "panic"}

\* time.AfterFunc(*dur, cancel), the Ctrl+C handler or the hotkey: cancel()
Cancel(k) ==
  /\ ses[k].st = "live"
  /\ Running
  /\ ~ses[k].ctxDone
  /\ ses' = [ses EXCEPT ![k].ctxDone = TRUE]
  /\ ret' = NoRet
  /\ UNCHANGED <<sinkVars, src, crashed, app, mu, thr, db, now, mx>>

\* case b, ok := <-rec.Data(): a closed channel ends the goroutine; a
\* non-empty frame is mixed with the microphone frame that is ready, if
\* any, and writer.Write is entered with the result (held in mx).
WriterLoopRecv(k) ==
  /\ ses[k].st = "live"
  /\ ses[k].gpc = "select"
  /\ Running
  /\ LET pr == src[k]["rec"]
     IN
     IF pr.ch = <<>>
       THEN /\ pr.chClosed
            /\ ses' = [ses EXCEPT ![k].gpc = "done", ![k].errCh = Append(@, "nil")]
            /\ UNCHANGED <<src, crashed, mx>>
       ELSE
         LET b      == Head(pr.ch)
             src1   == [src EXCEPT ![k]["rec"].ch = Tail(@)]
             take   == Mixing(k) /\ Len(b) > 0 /\ src[k]["mic"].ch # <<>>
             micBuf == IF take THEN Head(src[k]["mic"].ch) ELSE <<>>
             src2   == IF take THEN [src1 EXCEPT ![k]["mic"].ch = Tail(@)] ELSE src1
             m      == IF Mixing(k) THEN mixS16Mono(b, micBuf)
                                    ELSE [out |-> b, panic |-> FALSE]
         IN
         /\ src' = src2
         /\ IF Len(b) = 0
              THEN UNCHANGED <<ses, crashed, mx>>
            ELSE IF m.panic
              THEN crashed' = TRUE /\ UNCHANGED <<ses, mx>>
            ELSE /\ ses' = [ses EXCEPT ![k].gpc = "writing", ![k].raced = FALSE]
                 /\ mx' = [loop |-> b, mic |-> micBuf, out |-> m.out,
                           panic |-> FALSE, done |-> TRUE]
                 /\ UNCHANGED crashed
  /\ ret' = NoRet
  /\ UNCHANGED <<sinkVars, app, mu, thr, db, now>>

\* writer.Write(mixed) / writer.Write(b) returns; fail as in WriterWrite.
\* torn: the call read w.closed before a concurrent Close set it, and
\* buffers and counts its bytes in the closed sink.
WriterLoopWrite(k, fail, outcome) ==
  /\ ses[k].st = "live"
  /\ ses[k].gpc = "writing"
  /\ Running
  /\ outcome # "seq" => ses[k].raced
  /\ outcome = "torn" => wr[k].closed
  /\ LET L == Len(mx.out) \div Unit
         f == fs[wr[k].path]
         w == IF outcome = "torn"
                THEN LET r == BufioWrite(wr[k], f, L, 0, 0, fail)
                     IN  [w |-> [r.w EXCEPT !.dataSize = (@ + (r.n % U32)) % U32],
                          f |-> r.f, n |-> r.n, err |-> r.err]
                ELSE WriterWrite(wr[k], f, L, fail)
     IN  IF outcome = "panic"
           THEN crashed' = TRUE /\ UNCHANGED <<fs, wr, ses>>
           ELSE /\ wr' = [wr EXCEPT ![k] = w.w]
                /\ fs' = [fs EXCEPT ![wr[k].path] = w.f]
                /\ ses' = IF w.err # "nil"
                     THEN [ses EXCEPT ![k].gpc = "done", ![k].raced = FALSE,
                                      ![k].errCh = Append(@, w.err)]
                     ELSE [ses EXCEPT ![k].gpc = "select", ![k].raced = FALSE,
                                      ![k].written = Append(@, mx.out)]
                /\ UNCHANGED crashed
  /\ mx' = NoMix
  /\ ret' = NoRet
  /\ UNCHANGED <<hist, src, app, mu, thr, db, now>>

\* case <-flushTicker.C: writer.Flush() is entered
WriterLoopTick(k) ==
  /\ ses[k].st = "live"
  /\ ses[k].gpc = "select"
  /\ Running
  /\ ses[k].tickPending
  /\ ses' = [ses EXCEPT ![k].gpc = "flushing", ![k].tickPending = FALSE,
                        ![k].raced = FALSE]
  /\ ret' = NoRet
  /\ UNCHANGED <<sinkVars, src, crashed, app, mu, thr, db, now, mx>>

\* _ = writer.Flush() returns
WriterLoopFlush(k, ok, outcome) ==
  /\ ses[k].st = "live"
  /\ ses[k].gpc = "flushing"
  /\ Running
  /\ outcome \in {"seq", "panic"}
  /\ outcome # "seq" => ses[k].raced
  /\ LET r == WriterFlush(wr[k], fs[wr[k].path], ok)
     IN  IF outcome = "panic"
           THEN crashed' = TRUE /\ UNCHANGED <<fs, wr>>
           ELSE /\ wr' = [wr EXCEPT ![k] = r.w]
                /\ fs' = [fs EXCEPT ![wr[k].path] = r.f]
                /\ UNCHANGED crashed
  /\ ses' = [ses EXCEPT ![k].gpc = "select", ![k].raced = FALSE]
  /\ ret' = NoRet
  /\ UNCHANGED <<hist, src, app, mu, thr, db, now, mx>>

\* main's select { case err := <-runErrCh: ... case <-ctx.Done(): }; a
\* non-nil report ends the process in fatalf.
MainWait(k, viaCtx) ==
  /\ thr[Main].pc = "cli_wait"
  /\ Running
  /\ IF viaCtx
       THEN /\ ses[k].ctxDone
            /\ thr' = [thr EXCEPT ![Main].pc = "cli_flush"]
            /\ ret' = NoRet
            /\ UNCHANGED ses
       ELSE /\ ses[k].errCh # <<>>
            /\ IF Head(ses[k].errCh) # "nil"
                 THEN /\ thr' = [thr EXCEPT ![Main].pc = "cli_exit",
                                            ![Main].runErr = Head(ses[k].errCh)]
                      /\ ses' = [ses EXCEPT ![k].errCh = Tail(@), ![k].st = "gone",
                                            ![k].gpc = "none"]
                      /\ ret' = [NoRet EXCEPT !.op = "main", !.id = Main,
                                              !.err = "capture error"]
                 ELSE /\ thr' = [thr EXCEPT ![Main].pc = "cli_flush"]
                      /\ ses' = [ses EXCEPT ![k].errCh = Tail(@)]
                      /\ ret' = NoRet
  /\ UNCHANGED <<sinkVars, src, crashed, app, mu, db, now, mx>>

\* main's _ = writer.Flush()
MainFlush(k, ok) ==
  /\ thr[Main].pc = "cli_flush"
  /\ Running
  /\ LET r == WriterFlush(wr[k], fs[wr[k].path], ok)
     IN  /\ wr' = [wr EXCEPT ![k] = r.w]
         /\ fs' = [fs EXCEPT ![wr[k].path] = r.f]
  /\ ses' = [ses EXCEPT ![k].raced = @ \/ ses[k].gpc \in {"writing", "flushing"}]
  /\ thr' = [thr EXCEPT ![Main].pc = "cli_close"]
  /\ ret' = NoRet
  /\ UNCHANGED <<hist, src, crashed, app, mu, db, now, mx>>

\* main's writer.Close(); an error ends the process in fatalf.
MainClose(k, cf) ==
  /\ thr[Main].pc = "cli_close"
  /\ Running
  /\ LET r == WriterClose(wr[k], fs[wr[k].path], cf)
     IN  /\ wr' = [wr EXCEPT ![k] = r.w]
         /\ fs' = [fs EXCEPT ![wr[k].path] = r.f]
         /\ hist' = [hist EXCEPT ![k].closes = @ + 1]
         /\ IF r.err # "nil"
              THEN /\ thr' = [thr EXCEPT ![Main].pc = "cli_exit"]
                   /\ ses' = [ses EXCEPT ![k].st = "gone", ![k].gpc = "none"]
                   /\ ret' = [NoRet EXCEPT !.op = "main", !.id = Main,
                                           !.path = thr[Main].loc.wavPath,
                                           !.err = "finalize wav"]
              ELSE /\ thr' = [thr EXCEPT ![Main].pc = "cli_return"]
                   /\ ses' = [ses EXCEPT ![k].raced =
                                @ \/ ses[k].gpc \in {"writing", "flushing"}]
                   /\ ret' = NoRet
  /\ UNCHANGED <<src, crashed, app, mu, db, now, mx>>

\* fmt.Println(wavPath), the deferred calls (flushTicker.Stop, cancel,
\* mic.Stop, rec.Stop, writer.Close on the closed sink) and the end of the
\* process
MainReturn(k) ==
  /\ thr[Main].pc = "cli_return"
  /\ Running
  /\ thr' = [thr EXCEPT ![Main].pc = "cli_exit"]
  /\ src' = [src EXCEPT ![k] = [kind \in Kinds |->
               IF src[k][kind].st = "nil" THEN src[k][kind]
               ELSE SourceStop(kind, src[k][kind], FALSE).r]]
  /\ ses' = [ses EXCEPT ![k].st = "gone", ![k].gpc = "none",
                        ![k].ctxDone = TRUE, ![k].tickStopped = TRUE]
  /\ ret' = [NoRet EXCEPT !.op = "main", !.id = Main,
                          !.path = thr[Main].loc.wavPath]
  /\ UNCHANGED <<sinkVars, crashed, app, mu, db, now, mx>>

NextCli ==
  \/ Cancel(TheCli)
  \/ \E kind \in Kinds, empty \in BOOLEAN : DeviceCallback(TheCli, kind, empty)
  \/ TickerFire(TheCli)
  \/ ConsumerCancelled(TheCli)
  \/ WriterLoopRecv(TheCli)
  \/ \E fail \in 0..1, outcome \in RaceOutcomes :
       WriterLoopWrite(TheCli, fail, outcome)
  \/ WriterLoopTick(TheCli)
  \/ \E ok \in BOOLEAN, outcome \in RaceOutcomes :
       WriterLoopFlush(TheCli, ok, outcome)
  \/ \E viaCtx \in BOOLEAN : MainWait(TheCli, viaCtx)
  \/ \E ok \in BOOLEAN : MainFlush(TheCli, ok)
  \/ \E cf \in StopCloseFails : MainClose(TheCli, cf)
  \/ MainReturn(TheCli)

SpecCli == InitCli /\ [][NextCli]_vars

\* -------------------------------------------------- controller properties
\* a step of a StartRecordingAdvanced call of thread t
StartStep(t) ==
  \/ StartEnter(t)
  \/ \E withMic \in BOOLEAN, dictation \in BOOLEAN, fail \in StartFails,
        cf \in StartCloseFails, later \in BOOLEAN :
       StartBody(t, withMic, dictation, fail, cf, later)

\* C1: a Start call that finds a session active (the recording flag set)
\* returns "already recording" and changes nothing else: no file, no sink,
\* no source, no consumer, no handle of the App, no recording row.
C1_StartWhileActiveChangesNothing ==
  [][\A t \in Threads :
       (app.recording /\ StartStep(t))
         => /\ ret' = [NoRet EXCEPT !.op = "start", !.id = t,
                                    !.err = "already recording"]
            /\ UNCHANGED <<fs, wr, hist, src, crashed, app, mu, thr, ses, db, now, mx>>]_vars

C1_StartRejectedWhileRecording ==
  /\ ret.op = "start" /\ ret.err = "already recording"
  /\ app.recording
  /\ ses[app.writer].st = "live"
  /\ wr[app.writer].st = "open" /\ ~wr[app.writer].closed

\* C2: a Stop call that finds no session active returns "not recording" with
\* an empty path and changes nothing else.
C2_StopWhileIdleChangesNothing ==
  [][\A t \in Threads :
       (~app.recording /\ StopEnter(t))
         => /\ ret' = [NoRet EXCEPT !.op = "stop", !.id = t,
                                    !.err = "not recording"]
            /\ ret'.path = NoPath
            /\ UNCHANGED <<fs, wr, hist, src, crashed, app, mu, thr, ses, db, now, mx>>]_vars

C2_StopRejectedAfterSession ==
  /\ ret.op = "stop" /\ ret.err = "not recording"
  /\ ~app.recording
  /\ \A t \in Threads : thr[t].pc = "idle"
  /\ \E k \in Ids : ses[k].st = "gone"

\* no StopRecording call has captured a session so far
NoStopYet == \A k \in Ids : ses[k].st # "gone" /\ ses[k].stoppers = {}

Sinks == {k \in Ids : wr[k].st = "open" /\ ~wr[k].closed}
Consumers == {k \in Ids : ses[k].gpc \in {"top", "select"}}

\* C3 as stated: as long as no Stop has been issued, every Start call
\* returns success or "already recording".
C3_OtherStartsAlreadyRecording ==
  [][\A t \in Threads :
       (NoStopYet' /\ StartStep(t) /\ ret'.op = "start")
         => ret'.err \in {"nil", "already recording"}]_vars

\* C3, amended: as long as no Stop has been issued, at most one Start call
\* succeeds, there is never more than one open sink or more than one
\* consumer, and every Start call that returns after the successful one
\* returns "already recording"; a call that ran before it returns success
\* or the error of the step that failed.
C3_AtMostOneStartSucceeds ==
  [][NoStopYet' =>
       /\ Cardinality({k \in Ids : ses'[k].st = "live"}) <= 1
       /\ Cardinality(Sinks') <= 1
       /\ Cardinality(Consumers') <= 1
       /\ \A t \in Threads :
            (StartStep(t) /\ ret'.op = "start")
              => /\ ret'.err = "nil" => Sinks = {}
                 /\ Sinks # {} => ret'.err = "already recording"]_vars

C3_SecondStartRejected ==
  /\ NoStopYet
  /\ ret.op = "start" /\ ret.err = "already recording"
  /\ Cardinality(Sinks) = 1 /\ Cardinality(Consumers) = 1
  /\ \A t \in Threads : thr[t].pc = "idle"

\* C4: each session is captured by at most one Stop call, which alone holds
\* its handles; its sink is closed once and each of its sources is stopped
\* once, and when that call returns the session is cancelled, its sink has
\* been closed and each of its sources has been stopped.
C4_OneStopTearsDown ==
  \A k \in Ids :
    /\ Cardinality(ses[k].stoppers) <= 1
    /\ {t \in Threads : thr[t].loc.writer = k} \subseteq ses[k].stoppers
    /\ hist[k].closes <= 1
    /\ \A kind \in Kinds : hist[k].stops[kind] <= 1
    /\ (/\ ret.op = "stop" /\ ret.err # "not recording"
        /\ ses[k].st = "live" /\ ses[k].stoppers = {ret.id})
       => /\ ses[k].ctxDone
          /\ hist[k].closes = 1
          /\ \A kind \in Kinds :
               src[k][kind].st # "nil" => hist[k].stops[kind] = 1

C4_SecondStopRejected ==
  /\ ret.op = "stop" /\ ret.err = "not recording"
  /\ \E t \in Threads, k \in Ids :
       /\ thr[t].pc = "stop_wait" /\ thr[t].loc.writer = k
       /\ ses[k].stoppers = {t}
       /\ ret.id # t

\* C5: while a Stop call is still tearing a session down (one of its
\* sources is not stopped yet or its sink is not closed yet), the App owns
\* no other session.
C5_NoSessionDuringTeardown ==
  \A j \in Ids, t \in Threads :
    (/\ thr[t].loc.writer = j
     /\ \/ ~wr[j].closed
        \/ \E kind \in Kinds : src[j][kind].devSt = "started")
    => ~(app.recording /\ app.writer # j)


\* ------------------------------------------------------ sink properties
SinkFile == fs[wr[TheSink].path]

\* C6: after successful Writes and a successful Close, the data size field
\* equals the number of bytes passed to Write, the RIFF size field equals
\* 36 plus that number, and the file is 44 bytes longer than that number.
C6_SizesEqualBytesPassed ==
  (/\ ret.op = "close" /\ ret.err = "nil"
   /\ hist[TheSink].closes = 1 /\ hist[TheSink].clean)
  => /\ SinkFile.data = hist[TheSink].passed
     /\ SinkFile.riff = RiffExtra + hist[TheSink].passed
     /\ SinkFile.len = HeaderLen + hist[TheSink].passed

\* The same for recordings whose RIFF size fits the 32-bit header field.
SinkSizesEqualBytesPassedBelow4GiB ==
  (/\ ret.op = "close" /\ ret.err = "nil"
   /\ hist[TheSink].closes = 1 /\ hist[TheSink].clean
   /\ RiffExtra + hist[TheSink].passed < U32)
  => /\ SinkFile.data = hist[TheSink].passed
     /\ SinkFile.riff = RiffExtra + hist[TheSink].passed
     /\ SinkFile.len = HeaderLen + hist[TheSink].passed

SinkEightBytesWritten ==
  /\ ret.op = "close" /\ ret.err = "nil" /\ hist[TheSink].clean
  /\ hist[TheSink].writes = 2 /\ hist[TheSink].passed = 2
  /\ SinkFile.len = 52 \div Unit /\ SinkFile.data = 8 \div Unit

\* C7: a Close on a closed sink returns nil and changes neither the sink
\* (its byte counter, its file handle, the seeks, patches and file closes
\* it has issued) nor the file.
C7_CloseIsIdempotent ==
  [][\A fail \in 0..6 :
       (wr[TheSink].closed /\ SinkClose(TheSink, fail))
       => (ret'.err = "nil" /\ wr' = wr /\ fs' = fs)]_vars

C7_ClosedTwice ==
  /\ ret.op = "close" /\ hist[TheSink].closes = 2
  /\ hist[TheSink].passed > 0 /\ wr[TheSink].nPatch = 2

\* C8: a Write on a closed sink returns 0 and the closed error and changes
\* neither the sink nor the file; a Flush on a closed sink returns nil and
\* changes nothing; a Flush on an open sink leaves the two header fields
\* and the byte counter as they are.
C8_ClosedSinkTakesNoData ==
  [][/\ \A L \in WriteLens, fail \in 0..2 :
          (wr[TheSink].closed /\ SinkWrite(TheSink, L, fail))
          => (ret'.n = 0 /\ ret'.err = "closed" /\ wr' = wr /\ fs' = fs)
     /\ \A ok \in BOOLEAN :
          (wr[TheSink].closed /\ SinkFlush(TheSink, ok))
          => (ret'.err = "nil" /\ wr' = wr /\ fs' = fs)
     /\ \A ok \in BOOLEAN :
          (~wr[TheSink].closed /\ SinkFlush(TheSink, ok))
          => /\ SinkFile'.riff = SinkFile.riff
             /\ SinkFile'.data = SinkFile.data
             /\ wr'[TheSink].dataSize = wr[TheSink].dataSize]_vars

C8_WrittenAfterClose ==
  /\ ret.op = "write" /\ ret.err = "closed" /\ ret.n = 0
  /\ wr[TheSink].closed /\ hist[TheSink].passed > 0

\* C9: NewWriter with a bit depth other than 16 returns an error and no
\* sink and leaves the file system as it was.
C9_BadBitDepthRejectedBeforeCreate ==
  [][\A p \in Paths, bits \in BitDepths, fail \in 0..2 :
       (bits # 16 /\ SinkOpen(TheSink, p, bits, fail))
       => (ret'.err = "bits" /\ wr'[TheSink].st = "nil" /\ fs' = fs)]_vars

C9_RejectedOverOldFile ==
  /\ ret.op = "open" /\ ret.n # 16 /\ ret.err = "bits"
  /\ fs[ret.path] = OldFile

\* ---------------------------------------------------- source properties
\* C10: no Stop call on a capture source panics, whether the source was
\* started or not, and every Stop after the first one leaves the source
\* (its device, its context, its channel and the backend calls made so
\* far) as it was.
C10_StopIsIdempotent ==
  [][\A kind \in Kinds, fail \in BOOLEAN :
       SrcStop(TheSource, kind, fail)
       => /\ ~crashed'
          /\ hist[TheSource].stops[kind] >= 1 => src' = src]_vars

\* The same for the loopback Recorder alone.
SourceRecorderStopIsIdempotent ==
  [][\A fail \in BOOLEAN :
       SrcStop(TheSource, "rec", fail)
       => /\ ~crashed'
          /\ hist[TheSource].stops["rec"] >= 1 => src' = src]_vars

\* C11: the data channel of a source is closed at most once, only after a
\* Stop call, only when the device is no longer started, and no Data
\* callback runs on a source whose channel is closed.
C11_ChannelClosedOnce ==
  [][\A kind \in Kinds :
       /\ src'[TheSource][kind].nClose <= 1
       /\ src'[TheSource][kind].chClosed
            => /\ hist'[TheSource].stops[kind] >= 1
               /\ src'[TheSource][kind].devSt # "started"
       /\ \A empty \in BOOLEAN :
            SrcCallback(TheSource, kind, empty)
              => ~src[TheSource][kind].chClosed]_vars

\* The same for the loopback Recorder alone.
SourceRecorderChannelClosedOnce ==
  [][/\ src'[TheSource]["rec"].nClose <= 1
     /\ src'[TheSource]["rec"].chClosed
          => /\ hist'[TheSource].stops["rec"] >= 1
             /\ src'[TheSource]["rec"].devSt # "started"
     /\ \A empty \in BOOLEAN :
          SrcCallback(TheSource, "rec", empty)
            => ~src[TheSource]["rec"].chClosed]_vars

\* the buffer the next callback of a source delivers
NextFrame(kind, empty) ==
  IF empty THEN <<>>
           ELSE DeviceFrame(kind, src[TheSource][kind].delivered + 1)

\* C12: a started device can always run its Data callback, whatever the
\* channel holds; the callback appends the frame at the tail of a channel
\* that holds fewer frames than its capacity and leaves a full channel as
\* it is, and it does not panic.
C12_CallbackNeverWaits ==
  [][\A kind \in Kinds :
       /\ (/\ ~crashed
           /\ src[TheSource][kind].devSt = "started"
           /\ src[TheSource][kind].delivered < MaxFrames)
          => ENABLED SrcCallback(TheSource, kind, FALSE)
       /\ \A empty \in BOOLEAN :
            SrcCallback(TheSource, kind, empty)
              => /\ ~crashed'
                 /\ src'[TheSource][kind].ch =
                      IF Len(src[TheSource][kind].ch) < src[TheSource][kind].cap
                        THEN Append(src[TheSource][kind].ch, NextFrame(kind, empty))
                        ELSE src[TheSource][kind].ch]_vars

\* the second frame was delivered while the first one filled the channel
C12_FrameDropped ==
  \E kind \in Kinds :
    /\ src[TheSource][kind].cap = 1
    /\ src[TheSource][kind].delivered = 2
    /\ src[TheSource][kind].ch = <<DeviceFrame(kind, 1)>>
    /\ src[TheSource][kind].devSt = "started"

\* C13: once Stop has been called on a source, its device is not started,
\* and every Start returns an error and leaves the source as it is.
C13_NoRestartAfterStop ==
  [][\A kind \in Kinds :
       /\ hist'[TheSource].stops[kind] >= 1
            => src'[TheSource][kind].devSt # "started"
       /\ \A fail \in 0..2 :
            (hist[TheSource].stops[kind] >= 1 /\ SrcStart(TheSource, kind, fail))
              => (ret'.op = "start" /\ ret'.err # "nil" /\ src' = src)]_vars

C13_RestartRejected ==
  \E kind \in Kinds :
    /\ ret.op = "start" /\ ret.err = "noctx"
    /\ hist[TheSource].stops[kind] = 1 /\ hist[TheSource].starts[kind] = 2
    /\ src[TheSource][kind].nDevStop = 1
    /\ src[TheSource][kind].devSt = "uninit"

\* ----------------------------------------------------- session properties
StopPcs ==
  {"stop_cancel", "stop_ticker", "stop_rec", "stop_mic", "stop_wait",
   "stop_close", "stop_persist"}

\* a step of a StopRecording call of thread t that has captured a session
StopStep(t) ==
  \/ StopCancel(t)
  \/ StopTicker(t)
  \/ \E kind \in Kinds, fail \in BOOLEAN : StopSource(t, kind, fail)
  \/ \E timeout \in BOOLEAN : StopWait(t, timeout)
  \/ \E ok \in BOOLEAN, cf \in StopCloseFails : StopClose(t, ok, cf)
  \/ \E fail \in PersistFails : StopPersist(t, fail)

\* writer.Flush() and writer.Close() as StopRecording calls them
Finalize(t, ok, cf) ==
  LET k  == thr[t].loc.writer
      fl == WriterFlush(wr[k], fs[wr[k].path], ok)
  IN  WriterClose(fl.w, fl.f, cf)

\* C14: a Stop call that has captured a session can always take its next
\* step; when the wait times out it goes on to flush and close the sink
\* with no error of its own, and whatever it then returns it returns with
\* the session's path and with the sink closed; it returns an error only
\* if Close failed, a persistence call failed, or the consumer reported one.
C14_StopProceedsOnTimeout ==
  [][\A t \in Threads :
       /\ (thr[t].pc \in StopPcs /\ Running) => ENABLED StopStep(t)
       /\ StopWait(t, TRUE)
            => (thr'[t].pc = "stop_close" /\ thr'[t].runErr = "nil")
       /\ (StopStep(t) /\ ret'.op = "stop")
            => /\ ret'.path = thr[t].loc.wavPath /\ ret'.path # NoPath
               /\ wr'[thr[t].loc.writer].closed
               /\ ~wr'[thr[t].loc.writer].fopen
               /\ ret'.err # "nil"
                    => \/ \E ok \in BOOLEAN, cf \in StopCloseFails :
                            StopClose(t, ok, cf) /\ Finalize(t, ok, cf).err # "nil"
                       \/ \E fail \in PersistFails \ {"none"} : StopPersist(t, fail)
                       \/ thr[t].runErr # "nil"]_vars

\* a Stop call has returned the path and no error while the consumer is
\* still running
C14_ReturnedAfterTimeout ==
  \E k \in Ids :
    /\ ret.op = "stop" /\ ret.err = "nil" /\ ret.path = ses[k].path
    /\ ses[k].stoppers = {ret.id}
    /\ ses[k].gpc \in {"top", "select"} /\ ses[k].errCh = <<>>
    /\ wr[k].closed /\ ~wr[k].fopen

\* the consumer of session k takes a frame and its writer.Write fails
WriteFails(k) ==
  /\ ses[k].gpc = "select"
  /\ src[k][Primary(k)].ch # <<>>
  /\ Head(src[k][Primary(k)].ch) # <<>>
  /\ \E fail \in 0..1 : ConsumerFrame(k, fail)
  /\ ~crashed'
  /\ wr'[k].err \/ wr[k].closed

\* the Stop call that captured session k is past its wait
PastWait(k) ==
  \E t \in ses[k].stoppers :
    thr[t].loc.runErrCh # k \/ thr[t].pc \in {"stop_close", "stop_persist"}

\* C15 as stated: a failed writer.Write ends the consumer with the error as
\* its report, at a time when the Stop call of the session can still
\* receive it, and a Stop call that has received an error returns one.
C15_WriteErrorReturnedByStop ==
  [][/\ \A k \in Ids :
          WriteFails(k)
            => /\ ses'[k].gpc = "done"
               /\ ses'[k].errCh # <<>>
               /\ ses'[k].errCh[Len(ses'[k].errCh)] # "nil"
               /\ ~PastWait(k)
     /\ \A t \in Threads :
          (StopStep(t) /\ ret'.op = "stop" /\ thr[t].runErr # "nil")
            => ret'.err # "nil"]_vars

\* C15, amended: a failed writer.Write ends the consumer with the error as
\* its report, and a Stop call that has received an error within its wait
\* returns one.
C15_WriteErrorReported ==
  [][/\ \A k \in Ids :
          WriteFails(k)
            => /\ ses'[k].gpc = "done"
               /\ ses'[k].errCh # <<>>
               /\ ses'[k].errCh[Len(ses'[k].errCh)] # "nil"
     /\ \A t \in Threads :
          (StopStep(t) /\ ret'.op = "stop" /\ thr[t].runErr # "nil")
            => ret'.err # "nil"]_vars

\* a Stop call has received, within its wait, the report of a consumer
\* that ended on a failed write
C15_StopReceivedWriteError ==
  \E k \in Ids, t \in Threads :
    /\ thr[t].pc = "stop_close" /\ thr[t].loc.writer = k
    /\ thr[t].runErr # "nil"
    /\ ses[k].gpc = "done" /\ ses[k].errCh = <<>>
    /\ wr[k].err /\ ~wr[k].closed

\* C16: when writer.Close fails in a Stop call, the call returns the
\* finalization error together with the session's path.
C16_CloseErrorReturned ==
  [][\A t \in Threads, ok \in BOOLEAN, cf \in StopCloseFails :
       (StopClose(t, ok, cf) /\ Finalize(t, ok, cf).err # "nil")
         => /\ ret'.op = "stop" /\ ret'.id = t
            /\ ret'.err = "finalize wav"
            /\ ret'.path = thr[t].loc.wavPath /\ ret'.path # NoPath]_vars

\* Close failed after a clean write phase: data was written, no write or
\* flush failed, and the consumer reported nil.
C16_CloseFailedAfterCleanWrites ==
  \E k \in Ids :
    /\ ret.op = "stop" /\ ret.err = "finalize wav"
    /\ ses[k].stoppers = {ret.id}
    /\ ses[k].gpc = "done" /\ ses[k].errCh = <<>>
    /\ ~wr[k].err /\ wr[k].dataSize > 0 /\ wr[k].closed

\* C17: a Stop call returns no error only if no device.Stop() of the
\* session's sources returned one and no flush or write of its sink
\* failed.
C17_TeardownErrorsSurfaced ==
  \A k \in Ids :
    (/\ ret.op = "stop" /\ ret.err = "nil"
     /\ ses[k].st = "live" /\ ses[k].stoppers = {ret.id})
    => /\ \A kind \in Kinds : ~src[k][kind].stopErr
       /\ ~wr[k].err

\* The same for the sink alone: a failed flush is never followed by a
\* Stop call that returns no error.
SessionFlushErrorsSurfaced ==
  \A k \in Ids :
    (/\ ret.op = "stop" /\ ret.err = "nil"
     /\ ses[k].st = "live" /\ ses[k].stoppers = {ret.id})
    => ~wr[k].err

DeviceFails == {"ctx", "init", "start", "micctx", "micinit", "micstart"}

C20_LifecycleIgnoresPersistence ==
  [][\A t \in Threads :
       /\ \A withMic \in BOOLEAN, dictation \in BOOLEAN,
             cf \in StartCloseFails, later \in BOOLEAN :
            StartBody(t, withMic, dictation, "db", cf, later)
              => (app'.recording /\ ret'.err = "nil")
       /\ \A fail \in PersistFails \ {"none"} :
            StopPersist(t, fail)
              => /\ ~app'.recording
                 /\ wr'[thr[t].loc.writer].closed
                 /\ \A kind \in Kinds :
                      src'[thr[t].loc.writer][kind].devSt # "started"
                 /\ thr[t].runErr # "nil" => ret'.err = thr[t].runErr]_vars

\* The Stop half of it alone.
SessionStopIgnoresPersistence ==
  [][\A t \in Threads, fail \in PersistFails \ {"none"} :
       StopPersist(t, fail)
         => /\ ~app'.recording
            /\ wr'[thr[t].loc.writer].closed
            /\ \A kind \in Kinds :
                 src'[thr[t].loc.writer][kind].devSt # "started"
            /\ thr[t].runErr # "nil" => ret'.err = thr[t].runErr]_vars

\* ---------------------------------------------------------- mix properties
\* the j-th 16-bit sample of a buffer
SampleAt(buf, j) == S16(buf[2 * j - 1], buf[2 * j])

\* C24: for equal-length, non-empty, even-length buffers a and b,
\* mix(a, b) is byte for byte mix(b, a).
C24_MixCommutes ==
  (/\ mx.done
   /\ Len(mx.loop) = Len(mx.mic) /\ Len(mx.loop) > 0 /\ Len(mx.loop) % 2 = 0)
  => /\ ~mx.panic
     /\ Len(mx.out) = Len(mx.loop)
     /\ mx.out = mixS16Mono(mx.mic, mx.loop).out

\* two different buffers of two samples each have been mixed into a third
C24_MixedTwoDifferentBuffers ==
  /\ mx.done /\ ~mx.panic
  /\ Len(mx.loop) = 4 /\ Len(mx.mic) = 4
  /\ mx.loop # mx.mic /\ mx.out # mx.loop /\ mx.out # mx.mic
  /\ SampleAt(mx.out, 1) # SampleAt(mx.out, 2)

\* C25: every mixed sample is (a + b) / 2 with the quotient truncated
\* toward zero, where a and b are the samples at the same offset; it lies
\* in -32768..32767 and is stored low byte first.
C25_MixedSampleIsTruncatedMean ==
  (mx.done /\ ~mx.panic /\ Len(mx.mic) > 0)
  => \A j \in 1..(Len(mx.out) \div 2) :
       LET sum == SampleAt(mx.loop, j) + SampleAt(mx.mic, j)
           q   == SampleAt(mx.out, j)
       IN  /\ mx.out[2 * j - 1] \in 0..255 /\ mx.out[2 * j] \in 0..255
           /\ q \in -32768..32767
           /\ sum >= 0 => (2 * q <= sum /\ sum <= 2 * q + 1)
           /\ sum < 0 => (2 * q - 1 <= sum /\ sum <= 2 * q)
           /\ (SampleAt(mx.loop, j) = 32767 /\ SampleAt(mx.mic, j) = 32767)
                => q = 32767
           /\ (SampleAt(mx.loop, j) = -32768 /\ SampleAt(mx.mic, j) = -32768)
                => q = -32768
           /\ (SampleAt(mx.loop, j) = 0 /\ SampleAt(mx.mic, j) = 32767)
                => q = 16383

\* 0 and 32767 have been mixed into 16383, -1 and 0 into 0
C25_MixedOddSums ==
  /\ mx.done /\ ~mx.panic
  /\ mx.loop = <<0, 0, 255, 255>> /\ mx.mic = <<255, 127, 0, 0>>
  /\ mx.out = <<255, 63, 0, 0>>

\* C26: with an empty (or nil) second buffer, mix returns the first
\* buffer, byte for byte and of the same length.
C26_EmptyMicReturnsPrimary ==
  (mx.done /\ mx.mic = <<>>) => (~mx.panic /\ mx.out = mx.loop)

\* a primary buffer of three bytes came back from a mix with no
\* microphone buffer
C26_PrimaryReturned ==
  /\ mx.done /\ mx.mic = <<>> /\ Len(mx.loop) = 3 /\ mx.out = mx.loop

\* C27: for non-empty buffers of different lengths, mix returns, without
\* failing, a buffer as long as the shorter one, made of the leading
\* bytes of the two alone.
C27_MixTruncatesToShorter ==
  (/\ mx.done
   /\ Len(mx.loop) > 0 /\ Len(mx.mic) > 0 /\ Len(mx.loop) # Len(mx.mic))
  => LET n == IF Len(mx.loop) < Len(mx.mic) THEN Len(mx.loop) ELSE Len(mx.mic)
     IN  /\ ~mx.panic
         /\ Len(mx.out) = n
         /\ mx.out = mixS16Mono(SubSeq(mx.loop, 1, n), SubSeq(mx.mic, 1, n)).out

\* The same when the shorter buffer has an even number of bytes.
MixTruncatesToShorterEven ==
  (/\ mx.done
   /\ Len(mx.loop) > 0 /\ Len(mx.mic) > 0 /\ Len(mx.loop) # Len(mx.mic)
   /\ (IF Len(mx.loop) < Len(mx.mic) THEN Len(mx.loop) ELSE Len(mx.mic)) % 2 = 0)
  => LET n == IF Len(mx.loop) < Len(mx.mic) THEN Len(mx.loop) ELSE Len(mx.mic)
     IN  /\ ~mx.panic
         /\ Len(mx.out) = n
         /\ mx.out = mixS16Mono(SubSeq(mx.loop, 1, n), SubSeq(mx.mic, 1, n)).out

\* ----------------------------------------------------- data path properties
\* a step in which writer.Write of session k's sink took data
Wrote(k) ==
  /\ wr[k].st = "open" /\ wr'[k].st = "open"
  /\ wr'[k].dataSize # wr[k].dataSize \/ wr'[k].n > wr[k].n

\* C21: the session the App is recording has one consumer goroutine of
\* its own (running, or returned after an error or a closed channel), the
\* one whose completion channel the App holds; every call of writer.Write
\* on a session's sink is made by that session's consumer, in its select,
\* and no step of a StartRecordingAdvanced or StopRecording call is one.
C21_OnlyConsumerWrites ==
  [][/\ \A k \in Ids :
          (app'.recording /\ app'.writer = k)
            => /\ ses'[k].st = "live"
               /\ ses'[k].gpc \in {"top", "select", "done"}
               /\ app'.runErrCh = k
     /\ \A k \in Ids :
          Wrote(k) => /\ ses[k].gpc = "select"
                      /\ \E fail \in 0..1 : ConsumerFrame(k, fail)
     /\ \A t \in Threads :
          (StartStep(t) \/ StopEnter(t) \/ StopStep(t))
            => \A k \in Ids : ~Wrote(k)]_vars

\* a Stop call has closed a sink that holds two frames, both written by
\* the consumer
C21_ClosedAfterConsumerWrote ==
  \E k \in Ids :
    /\ ret.op = "stop" /\ ret.err = "nil" /\ ses[k].stoppers = {ret.id}
    /\ Len(ses[k].written) = 2
    /\ wr[k].closed /\ wr[k].dataSize = 2

\* the App's per-session fields other than recordingID
Handles(a) == [a EXCEPT !.recordingID = 0]

\* a step of session k's consumer goroutine
ConsumerStep(k) ==
  \/ ConsumerTop(k)
  \/ ConsumerCancelled(k)
  \/ \E fail \in 0..1 : ConsumerFrame(k, fail)
  \/ \E ok \in BOOLEAN : ConsumerFlush(k, ok)

\* C22: every step that changes a per-session field of the App, the
\* recording id included, is a step of a Start or Stop call taken with the
\* mutex held; no consumer step reads or changes the App's fields; a Stop
\* call reads and clears the recording id of the session it stopped and
\* of no other.
C22_StopTouchesOnlyItsRecording ==
  [][/\ app' # app
          => \/ \E t \in Threads : StartStep(t) /\ mu = t
             \/ \E t \in Threads : StopEnter(t) /\ mu = 0
     /\ \A k \in Ids : ConsumerStep(k) => app' = app
     /\ \A t \in Threads, fail \in PersistFails :
          (StopPersist(t, fail) /\ fail \notin {"stat"})
            => app.recordingID = thr[t].loc.writer]_vars

\* The same without the recording id: the handles are assigned and
\* cleared with the mutex held, and the consumer leaves the App alone.
CtlHandlesChangeUnderMutex ==
  [][/\ Handles(app') # Handles(app)
          => \/ \E t \in Threads : StartStep(t) /\ mu = t
             \/ \E t \in Threads : StopEnter(t) /\ mu = 0
     /\ \A k \in Ids : ConsumerStep(k) => app' = app]_vars

SourceStopped(r) == r.st = "nil" \/ (r.chClosed /\ ~r.dev /\ r.devSt # "started")

\* C28: in a Stop call the ticker is stopped after the context is
\* cancelled, the loopback source is stopped after both and before the
\* microphone, the wait begins when both sources are stopped, Flush and
\* Close follow the wait (a report received or the timeout), and a sink is
\* closed only when the sources of its session are stopped.
C28_TeardownInOrder ==
  [][/\ \A t \in Threads :
          LET k == thr[t].loc.writer IN
          /\ StopTicker(t) => (ses[k].ctxDone /\ ~ses[k].tickStopped)
          /\ (\E fail \in BOOLEAN : StopSource(t, "rec", fail))
               => /\ ses[k].ctxDone /\ ses[k].tickStopped
                  /\ src[k]["mic"].st # "nil" => ~src[k]["mic"].chClosed
          /\ (\E fail \in BOOLEAN : StopSource(t, "mic", fail))
               => /\ ses[k].ctxDone /\ ses[k].tickStopped
                  /\ SourceStopped(src[k]["rec"])
          /\ (\E timeout \in BOOLEAN : StopWait(t, timeout))
               => /\ \A kind \in Kinds : SourceStopped(src[k][kind])
                  /\ ~wr[k].closed
          /\ (thr[t].pc # "stop_close" /\ thr'[t].pc = "stop_close")
               => \E timeout \in BOOLEAN : StopWait(t, timeout)
          /\ (\E ok \in BOOLEAN, cf \in StopCloseFails : StopClose(t, ok, cf))
               => /\ ses[k].ctxDone /\ ses[k].tickStopped
                  /\ \A kind \in Kinds : SourceStopped(src[k][kind])
                  /\ ~wr[k].closed /\ wr'[k].closed
     /\ \A k \in Ids :
          (ses[k].st = "live" /\ ~wr[k].closed /\ wr'[k].closed)
            => \A kind \in Kinds : SourceStopped(src[k][kind])]_vars

\* a Stop call has torn down a session that had both sources
C28_MixedSessionTornDown ==
  \E k \in Ids :
    /\ ret.op = "stop" /\ ret.err = "nil" /\ ses[k].stoppers = {ret.id}
    /\ ses[k].mixing /\ ses[k].ctxDone /\ ses[k].tickStopped
    /\ src[k]["rec"].chClosed /\ src[k]["mic"].chClosed
    /\ wr[k].closed

\* session k's consumer is in its select and a non-empty primary frame is
\* at the head of the primary channel
FrameReady(k) ==
  /\ ses[k].gpc = "select" /\ Running
  /\ src[k][Primary(k)].ch # <<>>
  /\ Head(src[k][Primary(k)].ch) # <<>>

\* C29: in mixed mode, with a non-empty primary frame ready, the consumer
\* can take it whatever the microphone channel holds; when it does, and
\* the write succeeds, it has taken that frame and the first microphone
\* frame if there was one, and has written one buffer: the mix of the
\* two, or the primary frame itself if the microphone channel was empty
\* or closed.
C29_MicNeverStallsPrimary ==
  /\ [](\A k \in Ids :
          (Mixing(k) /\ FrameReady(k)) => ENABLED ConsumerFrame(k, 0))
  /\ [][\A k \in Ids :
          (/\ Mixing(k) /\ FrameReady(k)
           /\ \E fail \in 0..1 : ConsumerFrame(k, fail)
           /\ ~WriteFails(k))
            => LET b  == Head(src[k]["rec"].ch)
                   mc == src[k]["mic"].ch
               IN  /\ ~crashed'
                   /\ src'[k]["rec"].ch = Tail(src[k]["rec"].ch)
                   /\ src'[k]["mic"].ch = IF mc = <<>> THEN mc ELSE Tail(mc)
                   /\ Len(ses'[k].written) = Len(ses[k].written) + 1
                   /\ ses'[k].written[Len(ses'[k].written)] =
                        IF mc = <<>> THEN b ELSE mixS16Mono(b, Head(mc)).out
                   /\ wr'[k].dataSize = wr[k].dataSize + 1]_vars

\* the consumer of a mixed session has written a mixed frame and then a
\* primary frame as it was
C29_MixedThenUnmixed ==
  \E k \in Ids :
    /\ ses[k].mixing /\ Len(ses[k].written) = 2
    /\ ses[k].written[1] = <<1, 0, 1, 0>>
    /\ ses[k].written[2] = DeviceFrame("rec", 2)

\* the number the device gave to a non-empty frame (its first byte)
FrameNo(f) == f[1]

\* the non-empty frames among those queued in a channel, in queue order
RECURSIVE NonEmpty(_)
NonEmpty(ch) ==
  IF ch = <<>> THEN <<>>
  ELSE IF Head(ch) = <<>> THEN NonEmpty(Tail(ch))
  ELSE <<Head(ch)>> \o NonEmpty(Tail(ch))

\* C30: in loopback-only and dictation mode the buffers written to the
\* sink, followed by the non-empty frames still queued, are frames the
\* primary device delivered, each at most once and in delivery order; a
\* successful write appends the oldest queued frame, as it is, and removes
\* it from the queue.
C30_WrittenInDeliveryOrder ==
  [][\A k \in Ids :
       (ses[k].st = "live" /\ ~Mixing(k))
         => LET pr  == src[k][Primary(k)]
                all == ses[k].written \o NonEmpty(pr.ch)
            IN  /\ \A i \in 1..Len(all) :
                     /\ FrameNo(all[i]) \in 1..pr.delivered
                     /\ all[i] = DeviceFrame(Primary(k), FrameNo(all[i]))
                /\ \A i \in 1..Len(all), j \in 1..Len(all) :
                     i < j => FrameNo(all[i]) < FrameNo(all[j])
                /\ wr[k].dataSize = Len(ses[k].written)
                /\ (ses'[k].st = "live" /\ ses'[k].written # ses[k].written)
                     => /\ pr.ch # <<>>
                        /\ ses'[k].written = Append(ses[k].written, Head(pr.ch))
                        /\ src'[k][Primary(k)].ch = Tail(pr.ch)]_vars

\* a loopback-only session has written the two frames its device
\* delivered
C30_BothFramesWritten ==
  \E k \in Ids :
    /\ ses[k].st = "live" /\ ~ses[k].mixing /\ ~ses[k].dictation
    /\ ses[k].written = <<DeviceFrame("rec", 1), DeviceFrame("rec", 2)>>

\* the primary channel of session k is closed and drained
PrimaryClosed(k) ==
  src[k][Primary(k)].ch = <<>> /\ src[k][Primary(k)].chClosed

\* C31: a consumer that checks a cancelled context, or takes the
\* cancellation or the closed primary channel in its select, returns and
\* reports nil; one whose writer.Write fails returns and reports the
\* error; each of these steps can be taken when its condition holds. A
\* value is sent on the completion channel only in the step in which the
\* consumer returns, one value, into an empty channel of capacity one,
\* whether or not the Stop call is past its wait; a consumer that has
\* returned takes no further step.
C31_ConsumerReportsOnce ==
  /\ [](\A k \in Ids :
          /\ Len(ses[k].errCh) <= 1
          /\ ses[k].gpc \in {"top", "select"} => ses[k].errCh = <<>>
          /\ (ses[k].gpc = "top" /\ Running) => ENABLED ConsumerTop(k)
          /\ (ses[k].gpc = "select" /\ ses[k].ctxDone /\ Running)
               => ENABLED ConsumerCancelled(k)
          /\ (ses[k].gpc = "select" /\ PrimaryClosed(k) /\ Running)
               => ENABLED ConsumerFrame(k, 0))
  /\ [][\A k \in Ids :
          /\ (ConsumerTop(k) /\ ses[k].ctxDone)
               => (ses'[k].gpc = "done" /\ ses'[k].errCh = <<"nil">>)
          /\ ConsumerCancelled(k)
               => (ses'[k].gpc = "done" /\ ses'[k].errCh = <<"nil">>)
          /\ (ses[k].gpc = "select" /\ PrimaryClosed(k)
              /\ \E fail \in 0..1 : ConsumerFrame(k, fail))
               => (ses'[k].gpc = "done" /\ ses'[k].errCh = <<"nil">>)
          /\ WriteFails(k)
               => /\ ses'[k].gpc = "done"
                  /\ Len(ses'[k].errCh) = 1 /\ ses'[k].errCh[1] # "nil"
          /\ (ses[k].st = "live" /\ ses'[k].st = "live"
              /\ Len(ses'[k].errCh) > Len(ses[k].errCh))
               => /\ ConsumerStep(k)
                  /\ ses[k].gpc # "done" /\ ses'[k].gpc = "done"
                  /\ ses[k].errCh = <<>>
          /\ (ses[k].gpc # "done" /\ ses'[k].gpc = "done")
               => Len(ses'[k].errCh) = Len(ses[k].errCh) + 1
          /\ ses[k].gpc = "done"
               => (~ConsumerStep(k) /\ ses'[k].gpc \in {"done", "none"})]_vars

\* a consumer has reported a write error after the Stop call of its
\* session gave up waiting, and the report sits in the channel
C31_ReportedAfterTimeout ==
  \E k \in Ids, t \in Threads :
    /\ t \in ses[k].stoppers
    /\ thr[t].pc \in {"stop_close", "stop_persist"} /\ thr[t].runErr = "nil"
    /\ ses[k].gpc = "done"
    /\ Len(ses[k].errCh) = 1 /\ ses[k].errCh[1] # "nil"


\* --------------------------------------------------- sink, once finalized
\* a call of Write, Flush or Close on the sink
SinkCall ==
  \/ \E L \in WriteLens, fail \in 0..2 : SinkWrite(TheSink, L, fail)
  \/ \E ok \in BOOLEAN : SinkFlush(TheSink, ok)
  \/ \E fail \in 0..6 : SinkClose(TheSink, fail)

\* C32: a sink seeks to each of the two size fields and writes each at
\* most once and closes its file at most once, all in its first Close;
\* when that Close returns nil both fields hold the sizes; when it returns
\* an error (of the flush, a seek, a field write or the file's close) the
\* sink is closed and its file handle released; every later call leaves
\* sink and file as they are, and a later Flush or Close returns nil.
C32_HeaderPatchedOnce ==
  /\ [](/\ wr[TheSink].nSeek <= 2 /\ wr[TheSink].nPatch <= 2
        /\ wr[TheSink].nFClose <= 1)
  /\ [][LET w == wr[TheSink] IN
        /\ (w.st = "open"
            /\ (wr'[TheSink].nPatch # w.nPatch \/ wr'[TheSink].nSeek # w.nSeek
                \/ SinkFile'.riff # SinkFile.riff
                \/ SinkFile'.data # SinkFile.data))
             => (~w.closed /\ \E fail \in 0..6 : SinkClose(TheSink, fail))
        /\ \A fail \in 0..6 :
             (~w.closed /\ SinkClose(TheSink, fail))
               => /\ wr'[TheSink].closed /\ ~wr'[TheSink].fopen
                  /\ wr'[TheSink].nFClose = 1
                  /\ ret'.err = "nil"
                       => /\ wr'[TheSink].nSeek = 2 /\ wr'[TheSink].nPatch = 2
                          /\ SinkFile'.riff = (RiffExtra + w.dataSize) % U32
                          /\ SinkFile'.data = w.dataSize
        /\ (w.closed /\ SinkCall)
             => /\ wr' = wr /\ fs' = fs
                /\ ret'.err = (IF ret'.op = "write" THEN "closed" ELSE "nil")]_vars

\* the first Close of a sink that holds data failed in a seek, and the
\* second Close has returned nil without touching the header
C32_SecondCloseAfterFailedSeek ==
  /\ ret.op = "close" /\ ret.err = "nil" /\ hist[TheSink].closes = 2
  /\ hist[TheSink].passed > 0 /\ hist[TheSink].clean
  /\ wr[TheSink].closed /\ ~wr[TheSink].fopen
  /\ wr[TheSink].nSeek = 1 /\ wr[TheSink].nPatch = 0
  /\ SinkFile.data = 0


\* ------------------------------------------------- controller, once started
\* the capture sources session k owns
Owned(k) == {kind \in Kinds : src[k][kind].st # "nil"}

\* C33: a Start call that succeeds leaves the new session with a started
\* microphone source alone in dictation mode, whatever withMic is, and
\* otherwise with a started loopback source and, if and only if withMic is
\* set, a started microphone source; the App's rec and mic handles and
\* what the consumer captured say the same; while the App is recording,
\* the session it holds owns the sources its handles name.
C33_SourcesFollowMode ==
  /\ [](\A k \in Ids :
          (app.recording /\ app.writer = k)
            => /\ Owned(k) = {kind \in Kinds :
                               IF kind = "rec" THEN app.rec = k ELSE app.mic = k}
               /\ Owned(k) = (IF app.dictation THEN {"mic"}
                              ELSE IF ses[k].mixing THEN {"rec", "mic"}
                              ELSE {"rec"}))
  /\ [][\A t \in Threads, withMic \in BOOLEAN, dictation \in BOOLEAN :
          (/\ thr[t].pc = "start_body" /\ ret'.err = "nil"
           /\ \E fail \in StartFails, cf \in StartCloseFails, later \in BOOLEAN :
                StartBody(t, withMic, dictation, fail, cf, later))
            => LET k == app'.writer
                   want == IF dictation THEN {"mic"}
                           ELSE IF withMic THEN {"rec", "mic"} ELSE {"rec"}
               IN  /\ k # 0 /\ app'.recording
                   /\ {kind \in Kinds : src'[k][kind].st # "nil"} = want
                   /\ \A kind \in want : src'[k][kind].devSt = "started"
                   /\ (app'.rec = k) <=> ("rec" \in want)
                   /\ (app'.mic = k) <=> ("mic" \in want)
                   /\ app'.rec \in {0, k} /\ app'.mic \in {0, k}
                   /\ app'.dictation = dictation
                   /\ ses'[k].dictation = dictation
                   /\ ses'[k].mixing = (want = {"rec", "mic"})]_vars

\* a second session, in dictation mode, has been started after an
\* earlier one ended: it has the microphone source and no loopback source
C33_DictationAfterMixed ==
  \E k \in Ids, j \in Ids :
    /\ ses[j].st = "gone" /\ app.recording /\ app.writer = k /\ mu = 0
    /\ app.dictation /\ app.rec = 0 /\ app.mic = k
    /\ src[k]["rec"].st = "nil" /\ src[k]["mic"].devSt = "started"


\* C34: whenever nobody holds the mutex, a set recording flag comes with
\* the sink, the context and its cancel function, the flush ticker, the
\* completion channel and the path all set, all of one session, and with
\* the loopback or the microphone source set; a cleared flag comes with
\* every one of them nil or empty. The flag and the handles change
\* together: they are set by the last step of a Start call that returns
\* no error, and cleared by a Stop call before it releases the mutex.
C34_HandlesFollowFlag ==
  /\ [](mu = 0
          => IF app.recording
               THEN /\ app.writer # 0 /\ app.cancel = app.writer
                    /\ app.ctx = app.writer /\ app.flushTicker = app.writer
                    /\ app.runErrCh = app.writer /\ app.wavPath # NoPath
                    /\ app.rec = app.writer \/ app.mic = app.writer
                    /\ app.rec \in {0, app.writer} /\ app.mic \in {0, app.writer}
               ELSE Handles(app) = IdleApp)
  /\ [][/\ Handles(app') # Handles(app) => app'.recording # app.recording
        /\ (~app.recording /\ app'.recording)
             => \E t \in Threads :
                  /\ mu = t /\ mu' = 0 /\ thr[t].pc = "start_body"
                  /\ ret'.op = "start" /\ ret'.id = t /\ ret'.err = "nil"
                  /\ ret'.path = app'.wavPath
        /\ (app.recording /\ ~app'.recording)
             => (mu = 0 /\ mu' = 0 /\ \E t \in Threads : StopEnter(t))]_vars

\* a session is being recorded while the Stop call of the one before it
\* is still tearing that one down
C34_RecordingDuringTeardown ==
  \E t \in Threads, k \in Ids :
    /\ thr[t].pc = "stop_wait" /\ thr[t].loc.writer # k
    /\ mu = 0 /\ app.recording /\ app.writer = k
    /\ ses[thr[t].loc.writer].st = "live"


\* the paths of the recordings earlier successful Start calls have made
UsedPaths == {db.rows[j].path : j \in {i \in Ids : db.rows[i].exists}}

\* a Start call of thread t returns no error in this step
StartSucceeds(t) ==
  /\ thr[t].pc = "start_body"
  /\ StartStep(t)
  /\ ret'.op = "start" /\ ret'.err = "nil"

\* C35: a Start call that succeeds opens its sink at a path at which no
\* earlier session of the controller recorded, and leaves the files of
\* the earlier sessions as they are.
C35_FreshPathPerSession ==
  [][\A t \in Threads :
       StartSucceeds(t)
         => /\ ret'.path \notin UsedPaths
            /\ \A p \in UsedPaths : fs'[p] = fs[p]]_vars

\* The same for a Start call made in a second in which no earlier session
\* was started: the path is that of the second, and it is fresh.
CtlFreshPathInNewSecond ==
  [][\A t \in Threads :
       (StartSucceeds(t) /\ now' \notin UsedPaths)
         => /\ ret'.path = now' /\ ret'.path \notin UsedPaths
            /\ \A p \in UsedPaths : fs'[p] = fs[p]]_vars


\* ------------------------------------------------ data path, after cancel
\* C36: of the buffers a session's consumer writes, at most one is written
\* after cancel() was called, and after that one the consumer is at its
\* cancellation check or has returned; a cancelled context stays
\* cancelled; the consumer returns on cancellation without taking a frame
\* from a channel and without touching the sink, and once it has returned
\* nothing is taken from the channels and nothing more is counted into the
\* sink's data size.
C36_OneLateFrameAtMost ==
  /\ [](\A k \in Ids :
          /\ ses[k].late <= 1
          /\ ses[k].late = 1 => (ses[k].ctxDone /\ ses[k].gpc \in {"top", "done"})
          /\ (ses[k].gpc = "top" /\ ses[k].ctxDone /\ Running)
               => ENABLED ConsumerTop(k))
  /\ [][\A k \in Ids :
          (ses[k].st = "live" /\ ses'[k].st = "live")
            => /\ ses[k].ctxDone => ses'[k].ctxDone
               /\ (ConsumerTop(k) \/ ConsumerCancelled(k))
                    => (src' = src /\ wr' = wr /\ fs' = fs
                        /\ ses'[k].written = ses[k].written)
               /\ (ConsumerStep(k) /\ ses[k].ctxDone /\ ses[k].gpc = "top")
                    => ses'[k].gpc = "done"
               /\ ses[k].gpc = "done"
                    => /\ ses'[k].written = ses[k].written
                       /\ wr'[k].dataSize = wr[k].dataSize
                       /\ \A kind \in Kinds :
                            /\ Len(src'[k][kind].ch) >= Len(src[k][kind].ch)
                            /\ SubSeq(src'[k][kind].ch, 1, Len(src[k][kind].ch))
                                 = src[k][kind].ch]_vars

\* a Stop call has returned for a session whose consumer wrote one frame
\* after the cancellation and returned with the next frame still queued
C36_FrameLeftInChannel ==
  \E k \in Ids :
    /\ ret.op = "stop" /\ ret.err = "nil" /\ ses[k].stoppers = {ret.id}
    /\ ses[k].gpc = "done" /\ ses[k].late = 1
    /\ ses[k].written = <<DeviceFrame("rec", 1)>>
    /\ src[k]["rec"].ch = <<DeviceFrame("rec", 2)>>
    /\ wr[k].closed /\ wr[k].dataSize = 1


\* the frames session k's consumer has taken from a source's channel; the
\* channels of a session hold eight frames, more than a device delivers
\* here, so every delivered frame has been queued
Taken(k, kind) == src[k][kind].delivered - Len(src[k][kind].ch)

Orphaned(k) == app.recording /\ app.writer = k /\ ses[k].gpc = "done"

\* C38: a failed writer.Write in the consumer of the session the App
\* records changes neither the App's fields nor the mutex, the callers or
\* the capture sources. From then on, until a Stop call captures the
\* session, the flag and every handle stay set, the session's devices stay
\* started with their channels open and can deliver, the context stays
\* live and the ticker running, the report stays in the channel, a Start
\* call is rejected and changes nothing, and a Stop call can begin; the
\* flag is cleared by a Stop call only.
C38_WriteErrorLeavesControllerRecording ==
  /\ [](\A k \in Ids :
          (Orphaned(k) /\ mu = 0)
            => /\ ses[k].st = "live" /\ wr[k].err /\ ~wr[k].closed
               /\ Len(ses[k].errCh) = 1 /\ ses[k].errCh[1] # "nil"
               /\ ~ses[k].ctxDone /\ ~ses[k].tickStopped
               /\ app.cancel = k /\ app.flushTicker = k /\ app.runErrCh = k
               /\ app.ctx = k /\ app.wavPath = ses[k].path
               /\ Owned(k) # {}
               /\ \A kind \in Owned(k) :
                    /\ (IF kind = "rec" THEN app.rec ELSE app.mic) = k
                    /\ src[k][kind].devSt = "started" /\ ~src[k][kind].chClosed
                    /\ (src[k][kind].delivered < CtlFrames /\ Running)
                         => ENABLED DeviceCallback(k, kind, FALSE)
               /\ \A t \in Threads :
                    (thr[t].pc = "idle" /\ Running) => ENABLED StopEnter(t))
  /\ [][\A k \in Ids :
          /\ (WriteFails(k) /\ app.writer = k)
               => /\ app' = app /\ app.recording
                  /\ mu' = mu /\ thr' = thr /\ db' = db
                  /\ \A kind \in Kinds :
                       src'[k][kind] = [src[k][kind] EXCEPT !.ch = src'[k][kind].ch]
                  /\ Orphaned(k)'
          /\ Orphaned(k)
               => /\ \A t \in Threads :
                       StartEnter(t)
                         => /\ ret'.err = "already recording"
                            /\ UNCHANGED <<fs, wr, src, app, mu, thr, ses, db>>
                  /\ ~Orphaned(k)'
                       => \E t \in Threads :
                            /\ StopEnter(t)
                            /\ thr'[t].loc.writer = k /\ ~app'.recording]_vars

\* a Start call has just been rejected although the consumer of the
\* session the App records has returned on a write error
C38_StartRejectedAfterWriteError ==
  \E k \in Ids :
    /\ Orphaned(k) /\ mu = 0
    /\ ret.op = "start" /\ ret.err = "already recording"
    /\ Len(ses[k].errCh) = 1 /\ ses[k].errCh[1] # "nil"
    /\ Len(ses[k].written) = 1


\* ------------------------------------------------- command-line recorder
\* the writer goroutine is inside writer.Write or writer.Flush
InSinkCall(k) == ses[k].gpc \in {"writing", "flushing"}

\* the writer goroutine enters or returns from a call on the sink
WriterLoopSinkStep(k) ==
  \/ WriterLoopRecv(k) /\ ses'[k].gpc = "writing"
  \/ WriterLoopTick(k)
  \/ \E fail \in 0..1, outcome \in RaceOutcomes : WriterLoopWrite(k, fail, outcome)
  \/ \E ok \in BOOLEAN, outcome \in RaceOutcomes : WriterLoopFlush(k, ok, outcome)

\* main's final writer.Flush() or writer.Close()
MainFinalizeStep(k) ==
  \/ \E ok \in BOOLEAN : MainFlush(k, ok)
  \/ \E cf \in StopCloseFails : MainClose(k, cf)

\* C39: main's final Flush and Close run while the writer goroutine is in
\* no call on the sink, and once main has left its wait the writer
\* goroutine neither enters nor returns from a Write or a Flush.
C39_WriterQuietBeforeFinalize ==
  [][/\ MainFinalizeStep(TheCli) => ~InSinkCall(TheCli)
     /\ WriterLoopSinkStep(TheCli) => thr[Main].pc = "cli_wait"]_vars

\* When main leaves its wait with the goroutine's report, the goroutine
\* has returned and stays out of the sink.
CliReportMeansWriterDone ==
  [][/\ MainWait(TheCli, FALSE) => ses[TheCli].gpc = "done"
     /\ (ses[TheCli].gpc = "done" /\ ses'[TheCli].st = "live")
          => (ses'[TheCli].gpc = "done" /\ ~WriterLoopSinkStep(TheCli))]_vars


\* ----------------------------------------------------------- SpecLlama
\* The local summariser (internal/ui App.summariseWithLocalAI): concurrent
\* callers check, start, use and stop the llama-server child process under
\* App.llamaMu. In this specification app holds the App's llama fields and
\* the child process, and thr the callers' positions.
\*   llamaServer  - the *exec.Cmd handle: 0 is nil
\*   llamaMu      - the sync.Mutex: 0, or the goroutine that holds it
\*   processState - cmd.ProcessState, which only cmd.Wait sets
\*   proc         - the child process behind 127.0.0.1:8080
LlamaApp ==
  [llamaServer |-> 0, llamaMu |-> 0, processState |-> "nil", proc |-> "none"]

InitLlama ==
  /\ fs = [p \in Paths |-> NoFile]
  /\ InitObjects
  /\ app = LlamaApp
  /\ mu = 0
  /\ thr = [t \in Threads |-> IdleThread]
  /\ ses = [k \in Ids |-> NoSession]
  /\ db = [rows |-> [k \in Ids |-> NoRecording]]
  /\ now = 1
  /\ mx = NoMix

\* GET /health answers 200
Healthy == app.proc = "healthy"

\* what startLlamaServer can meet between the handle check and cmd.Start
LaunchOutcomes ==
  {"nil", "no model selected", "model file not found",
   "llama-server.exe not found", "failed to start llama-server"}

\* the child process on its own: it finishes loading the model, stops
\* answering, or exits (nobody has called Wait, so ProcessState stays nil)
LlamaProcessStep(to) ==
  /\ \/ app.proc = "starting" /\ to = "healthy"
     \/ app.proc = "healthy" /\ to = "hung"
     \/ app.proc \in {"starting", "healthy", "hung"} /\ to = "dead"
  /\ app' = [app EXCEPT !.proc = to]
  /\ ret' = NoRet
  /\ UNCHANGED <<sinkVars, src, crashed, mu, thr, ses, db, now, mx>>

\* summariseWithLocalAI is called
SummariseCall(t) ==
  /\ thr[t].pc = "idle"
  /\ thr' = [thr EXCEPT ![t].pc = "sum_running"]
  /\ ret' = NoRet
  /\ UNCHANGED <<sinkVars, src, crashed, app, mu, ses, db, now, mx>>

\* isLlamaServerRunning: Lock, the checks, and the deferred Unlock
IsLlamaServerRunning(t) ==
  /\ thr[t].pc = "sum_running"
  /\ app.llamaMu = 0
  /\ IF app.llamaServer = 0
       THEN /\ thr' = [thr EXCEPT ![t].pc = "start_lock"]
            /\ UNCHANGED app
     ELSE IF app.processState = "exited"
       THEN /\ thr' = [thr EXCEPT ![t].pc = "start_lock"]
            /\ app' = [app EXCEPT !.llamaServer = 0]
     ELSE /\ thr' = [thr EXCEPT ![t].pc = IF Healthy THEN "sum_config"
                                                       ELSE "start_lock"]
          /\ UNCHANGED app
  /\ ret' = NoRet
  /\ UNCHANGED <<sinkVars, src, crashed, mu, ses, db, now, mx>>

\* startLlamaServer: a.llamaMu.Lock()
StartLlamaServerLock(t) ==
  /\ thr[t].pc = "start_lock"
  /\ app.llamaMu = 0
  /\ app' = [app EXCEPT !.llamaMu = t]
  /\ thr' = [thr EXCEPT ![t].pc = "start_check"]
  /\ ret' = NoRet
  /\ UNCHANGED <<sinkVars, src, crashed, mu, ses, db, now, mx>>

\* startLlamaServer: if a.llamaServer != nil { a.stopLlamaServer() }
StartLlamaServerCheck(t) ==
  /\ thr[t].pc = "start_check"
  /\ thr' = [thr EXCEPT ![t].pc = IF app.llamaServer # 0 THEN "start_stop"
                                                          ELSE "start_launch"]
  /\ ret' = NoRet
  /\ UNCHANGED <<sinkVars, src, crashed, app, mu, ses, db, now, mx>>

\* stopLlamaServer, called by startLlamaServer or at the end of
\* summariseWithLocalAI: Lock, Kill and Wait, a.llamaServer = nil, and the
\* deferred Unlock. The Lock waits until the mutex is free, whoever holds it.
StopLlamaServer(t) ==
  /\ thr[t].pc \in {"start_stop", "sum_stop"}
  /\ app.llamaMu = 0
  /\ app' = IF app.llamaServer # 0
              THEN [app EXCEPT !.llamaServer = 0, !.proc = "none"]
              ELSE app
  /\ IF thr[t].pc = "start_stop"
       THEN /\ thr' = [thr EXCEPT ![t].pc = "start_launch"]
            /\ ret' = NoRet
       ELSE /\ thr' = [thr EXCEPT ![t] = IdleThread]
            /\ ret' = [NoRet EXCEPT !.op = "summarise", !.id = t,
                         !.err = IF thr[t].runErr = "nil" THEN "nil"
                                 ELSE "local AI request failed"]
  /\ UNCHANGED <<sinkVars, src, crashed, mu, ses, db, now, mx>>

\* startLlamaServer: the settings and the two os.Stat, cmd.Start, and
\* a.llamaServer = cmd; an error returns through the deferred Unlock
StartLlamaServerLaunch(t, outcome) ==
  /\ thr[t].pc = "start_launch"
  /\ IF outcome = "nil"
       THEN /\ app' = [app EXCEPT !.llamaServer = 1, !.proc = "starting"]
            /\ thr' = [thr EXCEPT ![t].pc = "start_wait"]
            /\ ret' = NoRet
       ELSE /\ app' = [app EXCEPT !.llamaMu = 0]
            /\ thr' = [thr EXCEPT ![t] = IdleThread]
            /\ ret' = [NoRet EXCEPT !.op = "summarise", !.id = t,
                                    !.err = "failed to start llama-server"]
  /\ UNCHANGED <<sinkVars, src, crashed, mu, ses, db, now, mx>>

\* waitForLlamaServer: up to 30 GET /health a second apart; then
\* startLlamaServer returns through the deferred Unlock, the handle set
WaitForLlamaServer(t, timedOut) ==
  /\ thr[t].pc = "start_wait"
  /\ timedOut = ~Healthy
  /\ app' = [app EXCEPT !.llamaMu = 0]
  /\ IF timedOut
       THEN /\ thr' = [thr EXCEPT ![t] = IdleThread]
            /\ ret' = [NoRet EXCEPT !.op = "summarise", !.id = t,
                                    !.err = "failed to start llama-server"]
       ELSE /\ thr' = [thr EXCEPT ![t].pc = "sum_config"]
            /\ ret' = NoRet
  /\ UNCHANGED <<sinkVars, src, crashed, mu, ses, db, now, mx>>

\* summariseWithLocalAI: loadLLMConfig("./configs/local.json")
SummariseConfig(t, ok) ==
  /\ thr[t].pc = "sum_config"
  /\ IF ok
       THEN /\ thr' = [thr EXCEPT ![t].pc = "sum_request"]
            /\ ret' = NoRet
       ELSE /\ thr' = [thr EXCEPT ![t] = IdleThread]
            /\ ret' = [NoRet EXCEPT !.op = "summarise", !.id = t,
                                    !.err = "failed to load local config"]
  /\ UNCHANGED <<sinkVars, src, crashed, app, mu, ses, db, now, mx>>

\* summariseWithLocalAI: makeOpenAIRequest; stopLlamaServer follows on
\* both outcomes
SummariseRequest(t, ok) ==
  /\ thr[t].pc = "sum_request"
  /\ ok => Healthy
  /\ thr' = [thr EXCEPT ![t].pc = "sum_stop",
                        ![t].runErr = IF ok THEN "nil" ELSE "request"]
  /\ ret' = NoRet
  /\ UNCHANGED <<sinkVars, src, crashed, app, mu, ses, db, now, mx>>

NextLlama ==
  \/ \E to \in {"healthy", "hung", "dead"} : LlamaProcessStep(to)
  \/ \E t \in Threads : SummariseCall(t)
  \/ \E t \in Threads : IsLlamaServerRunning(t)
  \/ \E t \in Threads : StartLlamaServerLock(t)
  \/ \E t \in Threads : StartLlamaServerCheck(t)
  \/ \E t \in Threads : StopLlamaServer(t)
  \/ \E t \in Threads, outcome \in LaunchOutcomes :
       StartLlamaServerLaunch(t, outcome)
  \/ \E t \in Threads, timedOut \in BOOLEAN : WaitForLlamaServer(t, timedOut)
  \/ \E t \in Threads, ok \in BOOLEAN : SummariseConfig(t, ok)
  \/ \E t \in Threads, ok \in BOOLEAN : SummariseRequest(t, ok)

SpecLlama == InitLlama /\ [][NextLlama]_vars

\* C40: startLlamaServer always returns, also when a handle of an earlier
\* server is still recorded: no goroutine ever waits in stopLlamaServer's
\* Lock for the llama mutex it holds itself. (sync.Mutex is not reentrant
\* and only the holder's code unlocks it, so such a wait never ends.)
C40_StartNeverWaitsForItsOwnLock ==
  \A t \in Threads : ~(thr[t].pc = "start_stop" /\ app.llamaMu = t)

\* The wait of C40's case has no end: the goroutine stays where it is and
\* keeps the mutex, whatever the others and the process do.
LlamaSelfLockIsForever ==
  [][\A t \in Threads :
       (thr[t].pc = "start_stop" /\ app.llamaMu = t)
         => (thr'[t] = thr[t] /\ app'.llamaMu = t)]_vars

====
